---- MODULE Spec2Model ----
(***************************************************************************)
(* Wallet ledger and payment reconciliation of chat-backend.               *)
(*                                                                         *)
(* The store is PostgreSQL under its default READ COMMITTED isolation:     *)
(* a SELECT reads the committed rows, a row write (UPDATE, INSERT .. ON    *)
(* CONFLICT) takes the row's lock until the transaction ends, and a        *)
(* transaction's writes become visible together at COMMIT.  Every request  *)
(* runs as its own task with its own session.                              *)
(*                                                                         *)
(* Amounts are whole rupees; the gateway reports paise.                    *)
(*                                                                         *)
(* The chat side keeps responses in a Redis cache under a key made from    *)
(* the current question.                                                   *)
(***************************************************************************)
EXTENDS Integers, Sequences, FiniteSets, TLC

VARIABLES
    user_balances,          \* table user_balances: user_id -> balance (rows that exist)
    balance_transactions,   \* table balance_transactions, in creation order
    payment_transactions,   \* table payment_transactions: tracking_id -> row
    rowLock,                \* user_balances row locks: user_id -> holding task, 0 when free
    tasks,                  \* the requests started so far, in arrival order
    cache_entries,          \* Redis: cache key -> stored chat response
    settings,               \* configuration read from the environment at start
    chat_sessions,          \* table chat_sessions: the session ids that exist
    chat_messages           \* table chat_messages, in creation order

\* The tables of the wallet side.
wallet == <<user_balances, balance_transactions, payment_transactions, rowLock>>

\* The state of the chat side.
chat == <<cache_entries, settings, chat_sessions, chat_messages>>

\* The chat tables and the configuration.
chat_store == <<settings, chat_sessions, chat_messages>>

vars == <<user_balances, balance_transactions, payment_transactions, rowLock, tasks,
          cache_entries, settings, chat_sessions, chat_messages>>

-----------------------------------------------------------------------------
(* Bounds *)

MaxCalls == 3       \* direct credit_balance / debit_balance calls (LedgerSpec)
MaxReqs == 2        \* HTTP requests (Spec)
MaxQueries == 1     \* history queries (HistorySpec)
MaxRows == 3        \* rows of the table a history query reads

Users == {"u1", "u2"}
Amounts == {50, 100}

None == "none"

-----------------------------------------------------------------------------
(* Tasks *)

\* A request: its inputs, its position (pc), what it has read and answered.
\* priorDone is the set of earlier tasks that had finished when this one
\* arrived; seen / seenLog are what a debit's SELECT returned and how long
\* the transaction log was at that moment; tracking_id / seenNotes are the
\* PaymentTransaction a webhook handler loaded; gateway_ok is whether the
\* gateway calls of the request succeeded, check_failed whether the query of
\* the duplicate check raised, and raised whether an exception
\* was raised while the task ran; limit / offset / result are a
\* history query and the rows it returned (for a cache read: messages and
\* the text returned, <<>> for None).  For a chat request: session_id,
\* content and provider are its inputs, backend / model what parse_provider
\* made of the provider, service the LLM service chosen, messages the list
\* passed to chat_completion and calls the number of calls of the LLM
\* backend it made.
BlankTask ==
    [kind |-> None, pc |-> "done", user_id |-> None, amount |-> 0,
     reference_id |-> None, reference_type |-> None,
     order_id |-> None, payment_id |-> None,
     body |-> None, signature |-> <<>>, event_id |-> <<>>,
     seen |-> 0, seenLog |-> 0, priorDone |-> {},
     tracking_id |-> None, seenNotes |-> <<>>,
     gateway_ok |-> TRUE, raised |-> FALSE, check_failed |-> FALSE,
     limit |-> 0, offset |-> 0, result |-> <<>>, messages |-> <<>>,
     session_id |-> None, content |-> <<>>, provider |-> <<>>,
     backend |-> <<>>, model |-> <<>>, service |-> None, calls |-> 0,
     http |-> 0, status |-> None]

TaskIds == 1..Len(tasks)

DoneTasks == {i \in TaskIds : tasks[i].pc = "done"}

Arrive(t) == tasks' = Append(tasks, [t EXCEPT !.priorDone = DoneTasks])

SetTask(i, t) == tasks' = [tasks EXCEPT ![i] = t]

-----------------------------------------------------------------------------
(* Ledger store: balance_service.py *)

HasRow(u) == u \in DOMAIN user_balances

\* A missing row counts as zero (get_user_balance creates it with 0.0).
BalanceOf(u) == IF HasRow(u) THEN user_balances[u] ELSE 0

\* INSERT .. ON CONFLICT (user_id) DO UPDATE SET balance = balance + amount
UpsertOverwrite(balances, u, amount) ==
    [x \in DOMAIN balances \cup {u} |-> IF x = u THEN amount ELSE balances[x]]

UpsertInsertOnly(balances, u, amount) ==
    [x \in DOMAIN balances \cup {u} |->
        IF x \in DOMAIN balances THEN balances[x] ELSE amount]

Upsert(balances, u, amount) ==
    [x \in DOMAIN balances \cup {u} |->
        IF x = u
        THEN (IF u \in DOMAIN balances THEN balances[u] + amount ELSE amount)
        ELSE balances[x]]

\* BalanceTransaction(...) row; id stands for the generated tx_<uuid>.
TransactionRow(i, type) ==
    [id |-> Len(balance_transactions) + 1,
     user_id |-> tasks[i].user_id,
     transaction_type |-> type,
     amount |-> tasks[i].amount,
     reference_id |-> tasks[i].reference_id,
     reference_type |-> tasks[i].reference_type,
     by |-> i]

\* A log that keeps one row for each reference: the new row takes the place
\* of the last one.
ReplaceLastTransaction(log, row) ==
    IF log = <<>> THEN <<row>> ELSE [log EXCEPT ![Len(log)] = row]

\* db.add(transaction): a new row, under a fresh id, joins the table.
AddTransaction(log, row) == Append(log, row)

\* A direct credit_balance(user_id, amount) call arrives.
CallCredit(u, a) ==
    /\ Len(tasks) < MaxCalls
    /\ Arrive([BlankTask EXCEPT !.kind = "credit", !.pc = "credit_execute",
                                !.user_id = u, !.amount = a,
                                !.reference_type = "payment"])
    /\ UNCHANGED <<user_balances, balance_transactions, payment_transactions, rowLock>>
    /\ UNCHANGED chat

\* credit_balance, db.execute(stmt): the upsert takes the row lock (it waits
\* while another transaction holds it).
credit_balance_execute(i) ==
    /\ tasks[i].pc = "credit_execute"
    /\ rowLock[tasks[i].user_id] = 0
    /\ rowLock' = [rowLock EXCEPT ![tasks[i].user_id] = i]
    /\ SetTask(i, [tasks[i] EXCEPT !.pc = "credit_commit"])
    /\ UNCHANGED <<user_balances, balance_transactions, payment_transactions>>
    /\ UNCHANGED chat

\* Where a task goes when credit_balance has returned True.
\* A direct call is finished; the webhook task goes on to process_webhook;
\* verify-payment answers balance_credited = True.
AfterCredit(t) ==
    CASE t.kind = "webhook" -> [t EXCEPT !.pc = "process_webhook"]
      [] t.kind = "verify" -> [t EXCEPT !.pc = "done", !.http = 200, !.status = "credited"]
      [] OTHER -> [t EXCEPT !.pc = "done", !.status = "ok"]

\* credit_balance, db.commit(): the incremented balance and the new
\* transaction row become visible together; the lock is released.
credit_balance_commit(i) ==
    /\ tasks[i].pc = "credit_commit"
    /\ rowLock[tasks[i].user_id] = i
    /\ user_balances' = Upsert(user_balances, tasks[i].user_id, tasks[i].amount)
    /\ balance_transactions' = AddTransaction(balance_transactions, TransactionRow(i, "credit"))
    /\ rowLock' = [rowLock EXCEPT ![tasks[i].user_id] = 0]
    /\ SetTask(i, AfterCredit(tasks[i]))
    /\ UNCHANGED payment_transactions
    /\ UNCHANGED chat

\* A direct debit_balance(user_id, amount) call arrives.
CallDebit(u, a) ==
    /\ Len(tasks) < MaxCalls
    /\ Arrive([BlankTask EXCEPT !.kind = "debit", !.pc = "debit_select",
                                !.user_id = u, !.amount = a,
                                !.reference_type = "usage"])
    /\ UNCHANGED <<user_balances, balance_transactions, payment_transactions, rowLock>>
    /\ UNCHANGED chat

\* if not user_balance or user_balance.balance < amount
InsufficientRowOnly(has_row, balance, amount) == ~has_row

Insufficient(has_row, balance, amount) == ~has_row \/ balance < amount

\* debit_balance, the SELECT and the check: the committed balance is read
\* without a lock; an insufficient balance returns False at once.
debit_balance_select(i) ==
    LET u == tasks[i].user_id IN
    /\ tasks[i].pc = "debit_select"
    /\ IF Insufficient(HasRow(u), BalanceOf(u), tasks[i].amount)
       THEN SetTask(i, [tasks[i] EXCEPT !.pc = "done", !.status = "insufficient",
                                        !.seen = BalanceOf(u),
                                        !.seenLog = Len(balance_transactions)])
       ELSE SetTask(i, [tasks[i] EXCEPT !.pc = "debit_commit",
                                        !.seen = BalanceOf(u),
                                        !.seenLog = Len(balance_transactions)])
    /\ UNCHANGED <<user_balances, balance_transactions, payment_transactions, rowLock>>
    /\ UNCHANGED chat

\* user_balance.balance -= amount: the ORM object holds the balance that was
\* read, and the flush writes SET balance = <that value - amount>.
DebitedFromCurrent(seen, current, amount) == current - amount

DebitedBalance(seen, current, amount) == seen - amount

\* debit_balance, db.commit(): flush (UPDATE of the row, which waits for the
\* row lock, and INSERT of the transaction row) and COMMIT.
debit_balance_commit(i) ==
    LET u == tasks[i].user_id IN
    /\ tasks[i].pc = "debit_commit"
    /\ rowLock[u] = 0
    /\ user_balances' = [user_balances EXCEPT
                            ![u] = DebitedBalance(tasks[i].seen, user_balances[u], tasks[i].amount)]
    /\ balance_transactions' = AddTransaction(balance_transactions, TransactionRow(i, "debit"))
    /\ SetTask(i, [tasks[i] EXCEPT !.pc = "done", !.status = "ok"])
    /\ UNCHANGED <<payment_transactions, rowLock>>
    /\ UNCHANGED chat

Min(a, b) == IF a < b THEN a ELSE b

\* A BalanceTransaction row as the table holds it, with its created_at.
StoredRow(id, u, created_at) ==
    [id |-> id, user_id |-> u, transaction_type |-> "credit", amount |-> 50,
     reference_id |-> None, reference_type |-> "payment", by |-> 0,
     created_at |-> created_at]

\* .where(BalanceTransaction.user_id == user_id)
\* .order_by(desc(BalanceTransaction.created_at)): the user's rows, newest
\* first; rows of equal created_at come in any order.
OrderedHistory(log, u) ==
    LET mine == {k \in 1..Len(log) : log[k].user_id = u}
        n == Cardinality(mine)
    IN {[k \in 1..n |-> log[f[k]]] :
          f \in {g \in [1..n -> mine] :
                   /\ \A a, b \in 1..n : a # b => g[a] # g[b]
                   /\ \A a \in 1..n : a < n =>
                         log[g[a]].created_at >= log[g[a + 1]].created_at}}

\* A page cut from the first limit rows.
PageWithinLimit(ordered, limit, offset) ==
    SubSeq(ordered, offset + 1, Min(limit, Len(ordered)))

\* .limit(limit).offset(offset): offset rows are skipped, then at most limit
\* rows are returned.
Page(ordered, limit, offset) ==
    SubSeq(ordered, offset + 1, Min(offset + limit, Len(ordered)))

\* get_transaction_history(user_id, db, limit, offset): one SELECT.
get_transaction_history(u, limit, offset) ==
    /\ Len(tasks) < MaxQueries
    /\ \E ordered \in OrderedHistory(balance_transactions, u) :
          Arrive([BlankTask EXCEPT !.kind = "history", !.user_id = u,
                                   !.limit = limit, !.offset = offset,
                                   !.result = Page(ordered, limit, offset),
                                   !.http = 200, !.status = "ok"])
    /\ UNCHANGED <<user_balances, balance_transactions, payment_transactions, rowLock>>
    /\ UNCHANGED chat

\* A task that its exception leaves: nothing after the credit runs.
CreditErrorPropagates(t) == [t EXCEPT !.pc = "raised", !.raised = TRUE]

\* Where a task goes when credit_balance has raised.  A direct call is
\* finished; the webhook task logs the error and goes on to process_webhook;
\* verify-payment answers HTTP 500.
AfterCreditError(t) ==
    CASE t.kind = "webhook" -> [t EXCEPT !.pc = "process_webhook", !.raised = TRUE]
      [] t.kind = "verify" -> [t EXCEPT !.pc = "done", !.http = 500, !.status = "error",
                                        !.raised = TRUE]
      [] OTHER -> [t EXCEPT !.pc = "done", !.status = "error", !.raised = TRUE]

\* A store in which the statement's effect outlives the failed transaction.
RollbackKeepsUpsert(balances, u, amount) == Upsert(balances, u, amount)

\* await db.rollback(): the upsert executed in the transaction is undone.
Rollback(balances, u, amount) == balances

\* credit_balance, db.execute(stmt) raises: except, rollback, raise.
credit_balance_execute_fails(i) ==
    /\ tasks[i].pc = "credit_execute"
    /\ SetTask(i, AfterCreditError(tasks[i]))
    /\ UNCHANGED <<user_balances, balance_transactions, payment_transactions, rowLock>>
    /\ UNCHANGED chat

\* credit_balance, db.commit() raises after the upsert was executed and the
\* row added: except, rollback, raise.  The lock is released.
credit_balance_commit_fails(i) ==
    /\ tasks[i].pc = "credit_commit"
    /\ rowLock[tasks[i].user_id] = i
    /\ user_balances' = Rollback(user_balances, tasks[i].user_id, tasks[i].amount)
    /\ rowLock' = [rowLock EXCEPT ![tasks[i].user_id] = 0]
    /\ SetTask(i, AfterCreditError(tasks[i]))
    /\ UNCHANGED <<balance_transactions, payment_transactions>>
    /\ UNCHANGED chat

\* A get_user_balance(user_id) call arrives.
CallGetBalance(u) ==
    /\ Len(tasks) < MaxCalls
    /\ Arrive([BlankTask EXCEPT !.kind = "get_balance", !.pc = "get_select",
                                !.user_id = u])
    /\ UNCHANGED <<user_balances, balance_transactions, payment_transactions, rowLock>>
    /\ UNCHANGED chat

\* get_user_balance, the SELECT: a user that has a row gets the stored
\* balance; for a user without one the call goes on to create it.
get_user_balance_select(i) ==
    LET u == tasks[i].user_id IN
    /\ tasks[i].pc = "get_select"
    /\ IF HasRow(u)
       THEN SetTask(i, [tasks[i] EXCEPT !.pc = "done", !.status = "ok",
                                        !.seen = user_balances[u],
                                        !.seenLog = Len(balance_transactions)])
       ELSE SetTask(i, [tasks[i] EXCEPT !.pc = "get_insert",
                                        !.seenLog = Len(balance_transactions)])
    /\ UNCHANGED <<user_balances, balance_transactions, payment_transactions, rowLock>>
    /\ UNCHANGED chat

\* The INSERT of a row whose primary key is taken is refused.
InsertRefused(balances, u) == u \in DOMAIN balances

\* get_user_balance, db.add(UserBalance(balance=0.0)) and db.commit(): a
\* plain INSERT.  It waits for a transaction that holds the key; when the
\* key exists the commit raises IntegrityError: except, rollback, raise.
get_user_balance_insert(i) ==
    LET u == tasks[i].user_id IN
    /\ tasks[i].pc = "get_insert"
    /\ rowLock[u] = 0
    /\ IF InsertRefused(user_balances, u)
       THEN /\ SetTask(i, [tasks[i] EXCEPT !.pc = "done", !.status = "error"])
            /\ UNCHANGED user_balances
       ELSE /\ user_balances' = [v \in DOMAIN user_balances \cup {u} |->
                                    IF v = u THEN 0 ELSE user_balances[v]]
            /\ SetTask(i, [tasks[i] EXCEPT !.pc = "done", !.status = "ok", !.seen = 0])
    /\ UNCHANGED <<balance_transactions, payment_transactions, rowLock>>
    /\ UNCHANGED chat

-----------------------------------------------------------------------------
(* The payment gateway, as the program sees it through razorpay_client *)

OrderIds == {"o1", "o2", "o3"}
PaymentIds == {"p1", "p3"}

\* o1 and o2 were created by add_money (POST /wallet/{user_id}/add), whose
\* notes name the top-up and the user; o3 is the order of a UPI payment
\* request (create_payment_request), whose notes carry neither.
OrderNotes(o) ==
    CASE o = "o1" -> [payment_type |-> "balance_topup", user_id |-> "u1"]
      [] o = "o2" -> [payment_type |-> "balance_topup", user_id |-> "u2"]
      [] OTHER -> [payment_type |-> None, user_id |-> None]

\* The rupees asked for when the order was created (request.amount); the
\* gateway keeps int(amount * 100) paise.
OrderAmount(o) ==
    CASE o = "o1" -> 100
      [] OTHER -> 50

\* razorpay_client.payment.fetch(payment_id); amount in paise.
PaymentDetails(p) ==
    CASE p = "p1" -> [order_id |-> "o1", amount |-> 10000, status |-> "captured"]
      [] p = "p4" -> [order_id |-> "o1", amount |-> 10000, status |-> "authorized"]
      [] p = "p5" -> [order_id |-> "o1", amount |-> 10000, status |-> "failed"]
      [] p = "p6" -> [order_id |-> "o1", amount |-> 10000, status |-> "created"]
      [] p = "p7" -> [order_id |-> "o1", amount |-> 10000, status |-> None]
      [] OTHER -> [order_id |-> "o3", amount |-> 5000, status |-> "captured"]

\* amount / 100  # Convert from paise
FromPaiseUnconverted(paise) == paise

FromPaise(paise) == paise \div 100

-----------------------------------------------------------------------------
(* Webhook requests: raw body, X-Razorpay-Signature, X-Razorpay-Event-Id *)

Bodies == {"captured_p1", "captured_p3", "not_json"}

\* Events of payment p3 (order o3, a payment request) only.
EventBodies == {"captured_p3", "authorized_p3", "failed_p3"}

\* Events that only inform: the order of p3 is paid, a refund of p3 is
\* created or processed.
NotifyBodies == {"order_paid_o3", "refund_created_p3", "refund_processed_p3"}

\* request.json(): the gateway's event for a payment, an order or a refund
\* (id is the id of the event's entity), or a body that does not parse.
WebhookJson(body) ==
    CASE body = "captured_p1" ->
            [parses |-> TRUE, event |-> "payment.captured", id |-> "p1",
             order_id |-> PaymentDetails("p1").order_id,
             amount |-> PaymentDetails("p1").amount]
      [] body = "captured_p3" ->
            [parses |-> TRUE, event |-> "payment.captured", id |-> "p3",
             order_id |-> PaymentDetails("p3").order_id,
             amount |-> PaymentDetails("p3").amount]
      [] body = "authorized_p3" ->
            [parses |-> TRUE, event |-> "payment.authorized", id |-> "p3",
             order_id |-> PaymentDetails("p3").order_id,
             amount |-> PaymentDetails("p3").amount]
      [] body = "failed_p3" ->
            [parses |-> TRUE, event |-> "payment.failed", id |-> "p3",
             order_id |-> PaymentDetails("p3").order_id,
             amount |-> PaymentDetails("p3").amount]
      [] body = "order_paid_o3" ->
            [parses |-> TRUE, event |-> "order.paid", id |-> "o3",
             order_id |-> None, amount |-> PaymentDetails("p3").amount]
      [] body = "refund_created_p3" ->
            [parses |-> TRUE, event |-> "refund.created", id |-> "r3",
             order_id |-> None, amount |-> PaymentDetails("p3").amount]
      [] body = "refund_processed_p3" ->
            [parses |-> TRUE, event |-> "refund.processed", id |-> "r3",
             order_id |-> None, amount |-> PaymentDetails("p3").amount]
      [] body = "no_event" ->
            [parses |-> TRUE, event |-> None, id |-> None, order_id |-> None,
             amount |-> 0]
      [] OTHER ->
            [parses |-> FALSE, event |-> None, id |-> None, order_id |-> None,
             amount |-> 0]

\* hmac.new(RAZORPAY_WEBHOOK_SECRET, body, sha256).hexdigest(): the gateway
\* alone can produce it; it differs from body to body.
Hmac(body) == <<"hmac", body>>

NoSignature == <<>>
Signatures == {NoSignature} \cup {Hmac(b) : b \in Bodies}

\* Event ids are strings, written as sequences of characters.
EventIds == {<<"e", "1">>, <<"e", "2">>}

\* The header is any string the sender chooses: here also one with the
\* character _ in it.
HeaderEventIds == EventIds \cup {<<"e", "_">>}

SignaturePresent(body, signature) == signature # NoSignature

verify_webhook_signature(body, signature) ==
    /\ signature # NoSignature
    /\ signature = Hmac(body)

\* The notes column is text.  K stands for the characters  "event_id": "
\* and Q for the closing quote.
K == "K"
Q == "Q"

\* notes = f'{{"event_id": "{event_id}"}}'
FirstNote(e) == <<"{", K>> \o e \o <<Q, "}">>

\* notes += f', "event_id": "{event_id}"'
MoreNote(notes, e) == notes \o <<",", " ", K>> \o e \o <<Q>>

RecordEventId(notes, e) == IF notes # <<>> THEN MoreNote(notes, e) ELSE FirstNote(e)

\* SQL LIKE: % matches any run of characters, _ any one character (K is
\* more than one character, so _ does not match it).
RECURSIVE Like(_, _)
Like(pattern, text) ==
    IF pattern = <<>> THEN text = <<>>
    ELSE IF Head(pattern) = "%"
         THEN Like(Tail(pattern), text) \/ (text # <<>> /\ Like(pattern, Tail(text)))
         ELSE /\ text # <<>>
              /\ \/ Head(pattern) = Head(text)
                 \/ Head(pattern) = "_" /\ Head(text) # K
              /\ Like(Tail(pattern), Tail(text))

\* The query alone, asked for any event id.
DuplicateLookup(e) ==
    \E t \in DOMAIN payment_transactions :
        Like(<<"%", K>> \o e \o <<Q, "%">>, payment_transactions[t].notes)

\* select(exists().where(PaymentTransaction.notes.like(f'%"event_id": "{event_id}"%')))
check_duplicate_event(e) ==
    /\ e # <<>>
    /\ \E t \in DOMAIN payment_transactions :
          Like(<<"%", K>> \o e \o <<Q, "%">>, payment_transactions[t].notes)

-----------------------------------------------------------------------------
(* Wallet API: wallet.py, payment_service.py *)

\* create_payment_request (POST /wallet/upi/pay): the gateway order o3 and
\* its payment link are created and the PaymentTransaction is stored.
create_payment_request ==
    /\ "t3" \notin DOMAIN payment_transactions
    /\ payment_transactions' =
          [t \in DOMAIN payment_transactions \cup {"t3"} |->
              IF t = "t3"
              THEN [order_id |-> "o3", payment_id |-> None, status |-> "created",
                    notes |-> <<>>]
              ELSE payment_transactions[t]]
    /\ UNCHANGED <<user_balances, balance_transactions, rowLock, tasks>>
    /\ UNCHANGED chat

\* tracking_id = f"track_{uuid.uuid4().hex[:8]}": a new id for each request.
NewTrackingId(i) == "track_" \o ToString(i)

\* order['id'] and payment_link['id'] as the gateway returns them.
GatewayOrderId(i) == "order_" \o ToString(i)
GatewayLinkId(i) == "plink_" \o ToString(i)

\* The record is stored once the order exists.
OrderCreated(order_ok, link_ok) == order_ok

\* order.create and payment_link.create both returned.
GatewayCallsSucceeded(order_ok, link_ok) == order_ok /\ link_ok

\* create_upi_payment (POST /wallet/upi/pay) up to the commit: the gateway
\* order and the payment link are created and the PaymentTransaction is
\* added to the session; an exception of either gateway call is answered
\* with success = False (HTTP 400).
create_upi_payment(amount, order_ok, link_ok) ==
    LET i == Len(tasks) + 1
        t == [BlankTask EXCEPT !.kind = "upi_pay", !.amount = amount,
                               !.gateway_ok = order_ok /\ link_ok] IN
    /\ Len(tasks) < MaxReqs
    /\ IF GatewayCallsSucceeded(order_ok, link_ok)
       THEN Arrive([t EXCEPT !.pc = "create_payment_request_commit",
                             !.tracking_id = NewTrackingId(i),
                             !.order_id = GatewayOrderId(i),
                             !.payment_id = GatewayLinkId(i)])
       ELSE Arrive([t EXCEPT !.raised = TRUE, !.http = 400,
                             !.status = IF order_ok THEN "link_failed" ELSE "order_failed"])
    /\ UNCHANGED <<wallet, chat>>

\* db.add(payment_record); await db.commit(); return CollectResponse(success=True, ...)
create_payment_request_commit(i) ==
    /\ tasks[i].pc = "create_payment_request_commit"
    /\ tasks[i].tracking_id \notin DOMAIN payment_transactions
    /\ payment_transactions' =
          [t \in DOMAIN payment_transactions \cup {tasks[i].tracking_id} |->
              IF t = tasks[i].tracking_id
              THEN [order_id |-> tasks[i].order_id, payment_id |-> None,
                    payment_link_id |-> tasks[i].payment_id,
                    amount |-> tasks[i].amount,
                    status |-> "created", notes |-> <<>>]
              ELSE payment_transactions[t]]
    /\ SetTask(i, [tasks[i] EXCEPT !.pc = "done", !.http = 200, !.status = "created"])
    /\ UNCHANGED <<user_balances, balance_transactions, rowLock>>
    /\ UNCHANGED chat

\* The commit raises: the except branch answers success = False.
create_payment_request_commit_fails(i) ==
    /\ tasks[i].pc = "create_payment_request_commit"
    /\ SetTask(i, [tasks[i] EXCEPT !.pc = "done", !.raised = TRUE, !.http = 400,
                                   !.status = "commit_failed"])
    /\ UNCHANGED <<wallet, chat>>

\* payment_webhook (POST /wallet/webhook) up to its response: the body is
\* parsed, the signature verified, the event id looked up; the background
\* task is scheduled when all three pass.
payment_webhook(body, signature, event_id) ==
    LET t == [BlankTask EXCEPT !.kind = "webhook", !.body = body,
                               !.signature = signature, !.event_id = event_id]
    IN
    /\ Len(tasks) < MaxReqs
    /\ Arrive(
         IF ~WebhookJson(body).parses
         THEN [t EXCEPT !.http = 200, !.status = "error_logged"]
         ELSE IF ~verify_webhook_signature(body, signature)
         THEN [t EXCEPT !.http = 400, !.status = "invalid_signature"]
         ELSE IF check_duplicate_event(event_id)
         THEN [t EXCEPT !.http = 200, !.status = "duplicate_event_skipped"]
         ELSE [t EXCEPT !.http = 200, !.status = "webhook_accepted",
                        !.pc = "process_wallet_webhook"])
    /\ UNCHANGED <<user_balances, balance_transactions, payment_transactions, rowLock>>
    /\ UNCHANGED chat

\* payment_webhook when the query of check_duplicate_event raises: the
\* except branch of the check returns False and the delivery goes on.
payment_webhook_check_fails(body, signature, event_id) ==
    LET t == [BlankTask EXCEPT !.kind = "webhook", !.body = body,
                               !.signature = signature, !.event_id = event_id]
    IN
    /\ Len(tasks) < MaxReqs
    /\ WebhookJson(body).parses
    /\ verify_webhook_signature(body, signature)
    /\ event_id # <<>>
    /\ Arrive([t EXCEPT !.check_failed = TRUE,
                        !.http = 200, !.status = "webhook_accepted",
                        !.pc = "process_wallet_webhook"])
    /\ UNCHANGED <<wallet, chat>>

WebhookCreditNoUser(payment_type, user_id, amount) ==
    payment_type = "balance_topup" /\ user_id = None /\ amount > 0

\* if payment_type == "balance_topup" and user_id and amount > 0
WebhookCreditAllowed(payment_type, user_id, amount) ==
    payment_type = "balance_topup" /\ user_id # None /\ amount > 0

\* _process_wallet_webhook, the background task: for payment.captured the
\* order is fetched from the gateway and a top-up is credited to the user
\* its notes name; then process_webhook runs.
process_wallet_webhook(i) ==
    LET data == WebhookJson(tasks[i].body)
        amount == FromPaise(data.amount)
        notes == OrderNotes(data.order_id)
    IN
    /\ tasks[i].pc = "process_wallet_webhook"
    /\ IF data.event = "payment.captured"
          /\ WebhookCreditAllowed(notes.payment_type, notes.user_id, amount)
       THEN SetTask(i, [tasks[i] EXCEPT !.pc = "credit_execute",
                                        !.order_id = data.order_id,
                                        !.payment_id = data.id,
                                        !.user_id = notes.user_id,
                                        !.amount = amount,
                                        !.reference_id = data.id,
                                        !.reference_type = "payment"])
       ELSE SetTask(i, [tasks[i] EXCEPT !.pc = "process_webhook",
                                        !.order_id = data.order_id,
                                        !.payment_id = data.id])
    /\ UNCHANGED <<user_balances, balance_transactions, payment_transactions, rowLock>>
    /\ UNCHANGED chat

\* _process_wallet_webhook, order.fetch raises: the inner except logs
\* "Could not process wallet credit" and process_webhook runs.
process_wallet_webhook_fetch_fails(i) ==
    LET data == WebhookJson(tasks[i].body) IN
    /\ tasks[i].pc = "process_wallet_webhook"
    /\ data.event = "payment.captured"
    /\ SetTask(i, [tasks[i] EXCEPT !.pc = "process_webhook",
                                   !.order_id = data.order_id,
                                   !.payment_id = data.id,
                                   !.raised = TRUE])
    /\ UNCHANGED <<wallet, chat>>

HandledEvents ==
    {"payment.captured", "payment.failed", "payment.authorized", "order.paid",
     "refund.created", "refund.processed"}

\* process_webhook for a payload without a known event: a missing event
\* raises in `"payment" in event` and is caught, an unknown one is logged;
\* the task ends.
process_webhook_unhandled(i) ==
    LET event == WebhookJson(tasks[i].body).event IN
    /\ tasks[i].pc = "process_webhook"
    /\ event \notin HandledEvents
    /\ SetTask(i, [tasks[i] EXCEPT !.pc = "done", !.raised = (event = None)])
    /\ UNCHANGED <<wallet, chat>>

RecordsOfOrder(o) ==
    {t \in DOMAIN payment_transactions : payment_transactions[t].order_id = o}

\* A handler that does nothing for an event whose credit step failed.
CapturedSelectSkipsFailedCredit(i) ==
    /\ tasks[i].pc = "process_webhook"
    /\ WebhookJson(tasks[i].body).event = "payment.captured"
    /\ IF RecordsOfOrder(tasks[i].order_id) = {} \/ tasks[i].raised
       THEN SetTask(i, [tasks[i] EXCEPT !.pc = "done"])
       ELSE \E t \in RecordsOfOrder(tasks[i].order_id) :
               SetTask(i, [tasks[i] EXCEPT !.pc = "captured_commit",
                                           !.tracking_id = t,
                                           !.seenNotes = payment_transactions[t].notes])
    /\ UNCHANGED <<wallet, chat>>

\* process_webhook -> _handle_payment_captured, the SELECT by order id.
handle_payment_captured_select(i) ==
    /\ tasks[i].pc = "process_webhook"
    /\ WebhookJson(tasks[i].body).event = "payment.captured"
    /\ IF RecordsOfOrder(tasks[i].order_id) = {}
       THEN SetTask(i, [tasks[i] EXCEPT !.pc = "done"])
       ELSE \E t \in RecordsOfOrder(tasks[i].order_id) :
               SetTask(i, [tasks[i] EXCEPT !.pc = "captured_commit",
                                           !.tracking_id = t,
                                           !.seenNotes = payment_transactions[t].notes])
    /\ UNCHANGED <<user_balances, balance_transactions, payment_transactions, rowLock>>
    /\ UNCHANGED chat

\* _handle_payment_captured, the update and db.commit(): status, payment id
\* and the notes with the event id appended are written to the row.
handle_payment_captured_commit(i) ==
    /\ tasks[i].pc = "captured_commit"
    /\ payment_transactions' =
          [payment_transactions EXCEPT ![tasks[i].tracking_id] =
              [@ EXCEPT !.status = "completed",
                        !.payment_id = tasks[i].payment_id,
                        !.notes = RecordEventId(tasks[i].seenNotes, tasks[i].event_id)]]
    /\ SetTask(i, [tasks[i] EXCEPT !.pc = "done"])
    /\ UNCHANGED <<user_balances, balance_transactions, rowLock>>
    /\ UNCHANGED chat

\* _handle_payment_captured, the SELECT raises: except, rollback.
handle_payment_captured_select_fails(i) ==
    /\ tasks[i].pc = "process_webhook"
    /\ WebhookJson(tasks[i].body).event = "payment.captured"
    /\ SetTask(i, [tasks[i] EXCEPT !.pc = "done", !.raised = TRUE])
    /\ UNCHANGED <<wallet, chat>>

\* _handle_payment_captured, db.commit() raises: except, rollback; the row
\* stays as it was.
handle_payment_captured_commit_fails(i) ==
    /\ tasks[i].pc = "captured_commit"
    /\ SetTask(i, [tasks[i] EXCEPT !.pc = "done", !.raised = TRUE])
    /\ UNCHANGED <<wallet, chat>>

\* process_webhook -> _handle_payment_failed, the SELECT by order id.
handle_payment_failed_select(i) ==
    /\ tasks[i].pc = "process_webhook"
    /\ WebhookJson(tasks[i].body).event = "payment.failed"
    /\ IF RecordsOfOrder(tasks[i].order_id) = {}
       THEN SetTask(i, [tasks[i] EXCEPT !.pc = "done"])
       ELSE \E t \in RecordsOfOrder(tasks[i].order_id) :
               SetTask(i, [tasks[i] EXCEPT !.pc = "failed_commit",
                                           !.tracking_id = t,
                                           !.seenNotes = payment_transactions[t].notes])
    /\ UNCHANGED <<user_balances, balance_transactions, payment_transactions, rowLock>>
    /\ UNCHANGED chat

\* _handle_payment_failed, the update and db.commit(): status, payment id
\* and the notes with the event id appended are written to the row.
handle_payment_failed_commit(i) ==
    /\ tasks[i].pc = "failed_commit"
    /\ payment_transactions' =
          [payment_transactions EXCEPT ![tasks[i].tracking_id] =
              [@ EXCEPT !.status = "failed",
                        !.payment_id = tasks[i].payment_id,
                        !.notes = RecordEventId(tasks[i].seenNotes, tasks[i].event_id)]]
    /\ SetTask(i, [tasks[i] EXCEPT !.pc = "done"])
    /\ UNCHANGED <<user_balances, balance_transactions, rowLock>>
    /\ UNCHANGED chat

\* process_webhook -> _handle_payment_authorized, the SELECT by order id.
handle_payment_authorized_select(i) ==
    /\ tasks[i].pc = "process_webhook"
    /\ WebhookJson(tasks[i].body).event = "payment.authorized"
    /\ IF RecordsOfOrder(tasks[i].order_id) = {}
       THEN SetTask(i, [tasks[i] EXCEPT !.pc = "done"])
       ELSE \E t \in RecordsOfOrder(tasks[i].order_id) :
               SetTask(i, [tasks[i] EXCEPT !.pc = "authorized_commit",
                                           !.tracking_id = t])
    /\ UNCHANGED <<user_balances, balance_transactions, payment_transactions, rowLock>>
    /\ UNCHANGED chat

\* An update that also records the event id.
AuthorizedCommitRecordingEvent(i) ==
    /\ tasks[i].pc = "authorized_commit"
    /\ payment_transactions' =
          [payment_transactions EXCEPT ![tasks[i].tracking_id] =
              [@ EXCEPT !.status = "authorized",
                        !.payment_id = tasks[i].payment_id,
                        !.notes = RecordEventId(@, tasks[i].event_id)]]
    /\ SetTask(i, [tasks[i] EXCEPT !.pc = "done"])
    /\ UNCHANGED <<user_balances, balance_transactions, rowLock>>
    /\ UNCHANGED chat

\* _handle_payment_authorized, the update and db.commit(): status and
\* payment id are written to the row; the event id is not recorded.
handle_payment_authorized_commit(i) ==
    /\ tasks[i].pc = "authorized_commit"
    /\ payment_transactions' =
          [payment_transactions EXCEPT ![tasks[i].tracking_id] =
              [@ EXCEPT !.status = "authorized",
                        !.payment_id = tasks[i].payment_id]]
    /\ SetTask(i, [tasks[i] EXCEPT !.pc = "done"])
    /\ UNCHANGED <<user_balances, balance_transactions, rowLock>>
    /\ UNCHANGED chat

\* process_webhook -> _handle_order_paid, the SELECT by the order's id.
handle_order_paid_select(i) ==
    LET order_id == WebhookJson(tasks[i].body).id IN
    /\ tasks[i].pc = "process_webhook"
    /\ WebhookJson(tasks[i].body).event = "order.paid"
    /\ IF RecordsOfOrder(order_id) = {}
       THEN SetTask(i, [tasks[i] EXCEPT !.pc = "done"])
       ELSE \E t \in RecordsOfOrder(order_id) :
               SetTask(i, [tasks[i] EXCEPT !.pc = "order_paid_commit",
                                           !.tracking_id = t])
    /\ UNCHANGED <<user_balances, balance_transactions, payment_transactions, rowLock>>
    /\ UNCHANGED chat

\* An update that also resets the notes.
MarkPaidResetNotes(record) == [record EXCEPT !.status = "paid", !.notes = <<>>]

\* payment_record.status = "paid" (and updated_at)
MarkPaid(record) == [record EXCEPT !.status = "paid"]

\* _handle_order_paid, the update and db.commit().
handle_order_paid_commit(i) ==
    /\ tasks[i].pc = "order_paid_commit"
    /\ payment_transactions' =
          [payment_transactions EXCEPT ![tasks[i].tracking_id] = MarkPaid(@)]
    /\ SetTask(i, [tasks[i] EXCEPT !.pc = "done"])
    /\ UNCHANGED <<user_balances, balance_transactions, rowLock>>
    /\ UNCHANGED chat

\* process_webhook -> _handle_refund_created: the refund is logged.
handle_refund_created(i) ==
    /\ tasks[i].pc = "process_webhook"
    /\ WebhookJson(tasks[i].body).event = "refund.created"
    /\ SetTask(i, [tasks[i] EXCEPT !.pc = "done"])
    /\ UNCHANGED <<user_balances, balance_transactions, payment_transactions, rowLock>>
    /\ UNCHANGED chat

\* process_webhook -> _handle_refund_processed: the refund is logged.
handle_refund_processed(i) ==
    /\ tasks[i].pc = "process_webhook"
    /\ WebhookJson(tasks[i].body).event = "refund.processed"
    /\ SetTask(i, [tasks[i] EXCEPT !.pc = "done"])
    /\ UNCHANGED <<user_balances, balance_transactions, payment_transactions, rowLock>>
    /\ UNCHANGED chat

\* if payment_type == "balance_topup" and noted_user_id == user_id and amount > 0
VerifyCreditAnyUser(payment_type, noted_user_id, user_id, amount) ==
    payment_type = "balance_topup" /\ amount > 0

VerifyCreditAllowed(payment_type, noted_user_id, user_id, amount) ==
    payment_type = "balance_topup" /\ noted_user_id = user_id /\ amount > 0

\* is_successful = payment_status in ['captured', 'authorized']
IsSuccessful(payment_status) == payment_status \in {"captured", "authorized"}

\* is_captured = payment_status == 'captured'
IsCaptured(payment_status) == payment_status = "captured"

\* A verification that answers from the request alone when the gateway
\* cannot be reached.
VerifyWithoutGateway(p, o, gateway_ok) ==
    [success |-> TRUE, status |-> "captured", amount |-> OrderAmount(o),
     is_captured |-> TRUE, order_notes |-> OrderNotes(o)]

\* verify_payment_status: payment and order are fetched from the gateway;
\* any exception gives success False.
verify_payment_status(p, o, gateway_ok) ==
    IF gateway_ok
    THEN LET payment_status == IF PaymentDetails(p).status = None THEN "unknown"
                               ELSE PaymentDetails(p).status
         IN [success |-> TRUE, status |-> payment_status,
             amount |-> FromPaise(PaymentDetails(p).amount),
             is_captured |-> IsCaptured(payment_status),
             order_notes |-> OrderNotes(o)]
    ELSE [success |-> FALSE, status |-> None, amount |-> 0,
          is_captured |-> FALSE, order_notes |-> OrderNotes("none")]

\* verify_and_credit_payment (POST /wallet/{user_id}/verify-payment) up to
\* the credit: payment and order are fetched from the gateway
\* (verify_payment_status); a captured top-up of this user is credited.
verify_and_credit_payment(u, p, o, gateway_ok) ==
    LET t == [BlankTask EXCEPT !.kind = "verify", !.user_id = u,
                               !.payment_id = p, !.order_id = o,
                               !.gateway_ok = gateway_ok]
        verification_result == verify_payment_status(p, o, gateway_ok)
        amount == verification_result.amount
        notes == verification_result.order_notes
    IN
    /\ Len(tasks) < MaxReqs
    /\ Arrive(
         IF ~verification_result.success
         THEN [t EXCEPT !.http = 400, !.status = "verification_failed"]
         ELSE IF ~verification_result.is_captured
         THEN [t EXCEPT !.http = 200, !.status = "not_captured"]
         ELSE IF VerifyCreditAllowed(notes.payment_type, notes.user_id, u, amount)
         THEN [t EXCEPT !.pc = "credit_execute", !.amount = amount,
                        !.reference_id = p, !.reference_type = "payment"]
         ELSE [t EXCEPT !.http = 200, !.status = "mismatch"])
    /\ UNCHANGED <<user_balances, balance_transactions, payment_transactions, rowLock>>
    /\ UNCHANGED chat

\* if v > 200000:  # UPI limit
AmountLimit == 200000

ValidateAmountPositive(v) == v > 0

\* AddBalanceRequest.validate_amount
validate_amount(v) == v > 0 /\ ~(v > AmountLimit)

\* create_razorpay_order: razorpay_client.order.create with the amount in
\* paise; any exception gives success False.
create_razorpay_order(amount, gateway_ok) ==
    IF gateway_ok
    THEN [success |-> TRUE, amount |-> amount, paise |-> amount * 100]
    ELSE [success |-> FALSE, amount |-> 0, paise |-> 0]

\* add_money (POST /wallet/{user_id}/add): the request body is validated,
\* then a gateway order is created; nothing is written to the store.
add_money(u, amount, gateway_ok) ==
    LET t == [BlankTask EXCEPT !.kind = "add_money", !.user_id = u,
                               !.amount = amount, !.gateway_ok = gateway_ok]
    IN
    /\ Len(tasks) < MaxReqs
    /\ Arrive(
         IF ~validate_amount(amount)
         THEN [t EXCEPT !.http = 422, !.status = "validation_error"]
         ELSE IF ~create_razorpay_order(amount, gateway_ok).success
         THEN [t EXCEPT !.http = 400, !.status = "order_failed"]
         ELSE [t EXCEPT !.http = 200, !.status = "order_created"])
    /\ UNCHANGED <<user_balances, balance_transactions, payment_transactions, rowLock>>
    /\ UNCHANGED chat

-----------------------------------------------------------------------------
(* Chat response cache: cache.py *)

\* Message contents are strings, written as sequences of characters.
Contents == {<<"H", "i">>, <<" ", "h", "i", " ">>, <<"y", "o">>}

Whitespace == {" "}

\* str.strip(): leading and trailing whitespace is removed.
RECURSIVE StripLeft(_)
StripLeft(content) ==
    IF content # <<>> /\ Head(content) \in Whitespace
    THEN StripLeft(Tail(content))
    ELSE content

RECURSIVE StripRight(_)
StripRight(content) ==
    IF content # <<>> /\ content[Len(content)] \in Whitespace
    THEN StripRight(SubSeq(content, 1, Len(content) - 1))
    ELSE content

Strip(content) == StripRight(StripLeft(content))

\* str.lower()
LowerChar(c) ==
    CASE c = "H" -> "h"
      [] c = "I" -> "i"
      [] c = "Y" -> "y"
      [] c = "O" -> "o"
      [] OTHER -> c

Lower(content) == [k \in 1..Len(content) |-> LowerChar(content[k])]

Message(role, content) == [role |-> role, content |-> content]

\* The turns before the current question: none, or one question with its
\* answer.
Histories == {<<>>, <<Message("user", <<"y", "o">>), Message("assistant", <<"o", "k">>)>>}

\* What send_message and send_text_message pass to chat_completion: the
\* history with the current user message appended.
MessageLists == {h \o <<Message("user", c)>> : h \in Histories, c \in Contents}

\* hashlib.sha256(json.dumps(data, sort_keys=True)).hexdigest()[:16]
Sha256(data) == <<"sha256", data>>

\* _generate_key(prefix, data)
generate_key(prefix, data) == <<"chat_cache", prefix, Sha256(data)>>

\* A key made from the whole conversation.
ConversationKeyAllTurns(messages) == generate_key("simple", [question |-> messages])

\* _get_conversation_key(messages): the key of the last message's content,
\* stripped and lower-cased, when that message is a user message.
get_conversation_key(messages) ==
    IF messages = <<>>
    THEN generate_key("simple", [question |-> <<>>])
    ELSE LET current_user_msg == messages[Len(messages)] IN
         IF current_user_msg.role = "user"
         THEN generate_key("simple", [question |-> Lower(Strip(current_user_msg.content))])
         ELSE generate_key("simple", [question |-> <<"str", current_user_msg>>])

\* self.compression_threshold = 1024  # Compress responses > 1KB
compression_threshold == 1024

Responses == {"Hello!", "Yo!"}

\* len(data)
ResponseLength(response) ==
    CASE response = "Hello!" -> 6
      [] response = "Yo!" -> 3
      [] response = "essay" -> compression_threshold + 1
      [] OTHER -> 2 * compression_threshold

\* _compress_data(data): zlib bytes for a long response, UTF-8 bytes else.
compress_data(data) ==
    [zlib |-> ResponseLength(data) > compression_threshold, text |-> data]

\* set_chat_response(messages, response): setex under the conversation key.
\* set_for remembers which message list the entry was stored for.
SetEx(messages, response) ==
    LET key == get_conversation_key(messages)
        entry == compress_data(response) IN
    [k \in DOMAIN cache_entries \cup {key} |->
        IF k = key
        THEN [zlib |-> entry.zlib, text |-> entry.text, set_for |-> messages]
        ELSE cache_entries[k]]

set_chat_response(messages, response) ==
    /\ cache_entries' = SetEx(messages, response)
    /\ UNCHANGED <<wallet, tasks, chat_store>>

\* redis_conn is built with decode_responses=True: the stored bytes come
\* back decoded as UTF-8; zlib bytes are not UTF-8 and the read raises.
ClientGet(key) ==
    IF key \notin DOMAIN cache_entries THEN [found |-> FALSE, raised |-> FALSE, text |-> None]
    ELSE IF cache_entries[key].zlib THEN [found |-> TRUE, raised |-> TRUE, text |-> None]
    ELSE [found |-> TRUE, raised |-> FALSE, text |-> cache_entries[key].text]

\* get_chat_response(messages): the entry under the conversation key, or
\* None on a miss or an exception.
ChatResponseOf(messages) ==
    LET cached_data == ClientGet(get_conversation_key(messages)) IN
    IF cached_data.found /\ ~cached_data.raised THEN <<cached_data.text>> ELSE <<>>

get_chat_response(messages) ==
    /\ Len(tasks) < MaxQueries
    /\ Arrive([BlankTask EXCEPT !.kind = "cache_get", !.messages = messages,
                                !.result = ChatResponseOf(messages)])
    /\ UNCHANGED <<wallet, cache_entries, chat_store>>

\* setex(key, ttl, ...): the entry disappears when its time to live is over.
cache_expire(key) ==
    /\ key \in DOMAIN cache_entries
    /\ cache_entries' = [k \in DOMAIN cache_entries \ {key} |-> cache_entries[k]]
    /\ UNCHANGED <<wallet, tasks, chat_store>>

-----------------------------------------------------------------------------
(* LLM backend selection: config.py, providers.py, dependencies.py *)

\* Backend names, model names and selectors are strings, written as
\* sequences of pieces; the piece "/" is the slash character.
OpenRouterName == <<"openrouter">>
LmStudioName == <<"lm_studio">>

\* DEFAULT_MODEL and LM_STUDIO_DEFAULT_MODEL
DEFAULT_MODEL == <<"gpt-oss-120b">>
LM_STUDIO_DEFAULT_MODEL == <<"gemma-3-1b-it">>

\* DEFAULT_LLM_BACKEND ("openrouter" or "lm_studio") and LM_STUDIO_ENABLED.
Settings ==
    [DEFAULT_LLM_BACKEND : {OpenRouterName, LmStudioName}, LM_STUDIO_ENABLED : BOOLEAN]

\* The defaults of the Settings class.
DefaultSettings == [DEFAULT_LLM_BACKEND |-> OpenRouterName, LM_STUDIO_ENABLED |-> TRUE]

\* The provider field of a message request; <<>> is an absent one (None
\* and "" are both false in `if not provider`).
Selectors ==
    {<<>>,
     <<"openrouter">>, <<"lm_studio">>, <<"groq">>,
     <<"lm_studio", "/", "gemma-7b-it">>,
     <<"openrouter", "/", "meta-llama", "/", "llama-3.3-70b-instruct">>,
     <<"groq", "/", "mixtral">>,
     <<"/", "mixtral">>}

HasSlash(provider) == \E k \in 1..Len(provider) : provider[k] = "/"

\* The position of the first slash.
FirstSlash(provider) ==
    CHOOSE k \in 1..Len(provider) :
        provider[k] = "/" /\ \A j \in 1..(k - 1) : provider[j] # "/"

\* provider.split("/", 1)
SplitOnce(provider) ==
    LET k == FirstSlash(provider) IN
    [backend |-> SubSeq(provider, 1, k - 1),
     model |-> SubSeq(provider, k + 1, Len(provider))]

\* The default model of a backend name; any name but lm_studio is served
\* as openrouter.
BackendDefault(backend) ==
    IF backend = LmStudioName
    THEN [backend |-> LmStudioName, model |-> LM_STUDIO_DEFAULT_MODEL]
    ELSE [backend |-> OpenRouterName, model |-> DEFAULT_MODEL]

\* parse_provider(provider) -> (backend, model)
parse_provider(provider) ==
    IF provider = <<>> THEN BackendDefault(settings.DEFAULT_LLM_BACKEND)
    ELSE IF ~HasSlash(provider) THEN BackendDefault(provider)
    ELSE SplitOnce(provider)

\* get_chat_service: the LM Studio service is passed only if enabled.
lm_studio == IF settings.LM_STUDIO_ENABLED THEN "lm_studio_service" ELSE None

\* The local service whenever it is named.
LlmServiceByNameOnly(backend) ==
    LET selected_backend == IF backend # <<>> THEN backend ELSE settings.DEFAULT_LLM_BACKEND IN
    IF selected_backend = LmStudioName THEN "lm_studio_service" ELSE "openrouter_service"

\* ChatService._get_llm_service(backend)
get_llm_service(backend) ==
    LET selected_backend == IF backend # <<>> THEN backend ELSE settings.DEFAULT_LLM_BACKEND IN
    IF selected_backend = LmStudioName /\ lm_studio # None /\ settings.LM_STUDIO_ENABLED
    THEN lm_studio
    ELSE "openrouter_service"

-----------------------------------------------------------------------------
(* Chat sessions and messages: main.py, chat_service.py,                  *)
(* openrouter_service.py, lm_studio.py                                     *)

SessionIds == {"s1", "s2"}

\* A lookup that finds every session.
SessionAlwaysFound(session_id) == TRUE

\* ChatService.get_session(session_id): the session row, or None.
get_session(session_id) == session_id \in chat_sessions

\* ChatMessage(session_id, role, content)
ChatMessageModel(session_id, role, content) ==
    [session_id |-> session_id, role |-> role, content |-> content]

\* The rows of a session in creation order.
MessagesOf(session_id) ==
    SelectSeq(chat_messages, LAMBDA row : row.session_id = session_id)

\* ChatService._get_message_history(session_id)
get_message_history(session_id) ==
    LET rows == MessagesOf(session_id) IN
    [k \in 1..Len(rows) |-> Message(rows[k].role, rows[k].content)]

\* Only the reply is stored.
StoreReplyOnly(session_id, messages, assistant_response) ==
    Append(chat_messages, ChatMessageModel(session_id, "assistant", <<assistant_response>>))

\* _store_messages: the last message of the list and the reply are added.
store_messages(session_id, messages, assistant_response) ==
    LET user_message == messages[Len(messages)] IN
    chat_messages
        \o <<ChatMessageModel(session_id, user_message.role, user_message.content),
             ChatMessageModel(session_id, "assistant", <<assistant_response>>)>>

\* create_session (POST /sessions): a session with a new id is stored.
create_session ==
    /\ \E session_id \in SessionIds \ chat_sessions :
          chat_sessions' = chat_sessions \cup {session_id}
    /\ UNCHANGED <<wallet, tasks, cache_entries, settings, chat_messages>>

\* delete_session (DELETE /sessions/{id}): its messages and the session
\* row are deleted.
delete_session(session_id) ==
    /\ session_id \in chat_sessions \/ MessagesOf(session_id) # <<>>
    /\ chat_messages' = SelectSeq(chat_messages, LAMBDA row : row.session_id # session_id)
    /\ chat_sessions' = chat_sessions \ {session_id}
    /\ UNCHANGED <<wallet, tasks, cache_entries, settings>>

\* send_message_to_session (POST /sessions/{id}/messages) up to the call of
\* the LLM backend: the provider is parsed, the session looked up (404 when
\* it is missing), the history read and the cache asked; on a hit the
\* cached text is the answer.
send_message_to_session(session_id, content, provider) ==
    LET parsed == parse_provider(provider)
        t == [BlankTask EXCEPT !.kind = "send_message", !.session_id = session_id,
                               !.content = content, !.provider = provider,
                               !.backend = parsed.backend, !.model = parsed.model]
        message_history == get_message_history(session_id) \o <<Message("user", content)>>
        cached_response == ChatResponseOf(message_history) IN
    /\ Len(tasks) < MaxReqs
    /\ IF ~get_session(session_id)
       THEN Arrive([t EXCEPT !.raised = TRUE, !.http = 404, !.status = "SESSION_NOT_FOUND"])
       ELSE IF cached_response # <<>>
       THEN Arrive([t EXCEPT !.service = get_llm_service(parsed.backend),
                             !.messages = message_history,
                             !.result = cached_response,
                             !.http = 200, !.status = "cache_hit"])
       ELSE Arrive([t EXCEPT !.service = get_llm_service(parsed.backend),
                             !.messages = message_history,
                             !.pc = "chat_completion"])
    /\ UNCHANGED <<wallet, chat>>

\* chat_completion after the backend answered: the reply is cached, the
\* user message and the reply are stored, the reply is the answer.
chat_completion_respond(i, assistant_response) ==
    /\ tasks[i].pc = "chat_completion"
    /\ cache_entries' = SetEx(tasks[i].messages, assistant_response)
    /\ chat_messages' =
          store_messages(tasks[i].session_id, tasks[i].messages, assistant_response)
    /\ SetTask(i, [tasks[i] EXCEPT !.pc = "done", !.calls = @ + 1,
                                   !.result = <<assistant_response>>,
                                   !.http = 200, !.status = "success"])
    /\ UNCHANGED <<wallet, settings, chat_sessions>>

\* chat_completion when the backend call fails (HTTP error, timeout): the
\* exception reaches the route, which answers 500.
chat_completion_fails(i) ==
    /\ tasks[i].pc = "chat_completion"
    /\ SetTask(i, [tasks[i] EXCEPT !.pc = "done", !.calls = @ + 1, !.raised = TRUE,
                                   !.http = 500, !.status = "MESSAGE_PROCESSING_FAILED"])
    /\ UNCHANGED <<wallet, chat>>

\* get_session_messages (GET /sessions/{id}/messages)
get_session_messages(session_id) ==
    LET t == [BlankTask EXCEPT !.kind = "get_messages", !.session_id = session_id] IN
    /\ Len(tasks) < MaxReqs
    /\ IF ~get_session(session_id)
       THEN Arrive([t EXCEPT !.raised = TRUE, !.http = 404, !.status = "SESSION_NOT_FOUND"])
       ELSE Arrive([t EXCEPT !.messages = get_message_history(session_id), !.http = 200])
    /\ UNCHANGED <<wallet, chat>>

-----------------------------------------------------------------------------
(* Specifications *)

Init ==
    /\ user_balances = <<>>
    /\ balance_transactions = <<>>
    /\ payment_transactions = <<>>
    /\ rowLock = [u \in Users |-> 0]
    /\ tasks = <<>>
    /\ cache_entries = <<>>
    /\ settings = DefaultSettings
    /\ chat_sessions = {}
    /\ chat_messages = <<>>

LedgerStep ==
    \/ \E i \in TaskIds : credit_balance_execute(i)
    \/ \E i \in TaskIds : credit_balance_commit(i)
    \/ \E i \in TaskIds : debit_balance_select(i)
    \/ \E i \in TaskIds : debit_balance_commit(i)

\* Concurrent direct calls of the balance service.
LedgerNext ==
    \/ \E u \in Users, a \in Amounts : CallCredit(u, a)
    \/ \E u \in Users, a \in Amounts : CallDebit(u, a)
    \/ LedgerStep

LedgerSpec == Init /\ [][LedgerNext]_vars

\* The same calls one after the other: a call arrives only when every
\* earlier call has returned.
Quiescent == \A i \in TaskIds : tasks[i].pc = "done"

LedgerSeqNext ==
    \/ \E u \in Users, a \in Amounts : Quiescent /\ CallCredit(u, a)
    \/ \E u \in Users, a \in Amounts : Quiescent /\ CallDebit(u, a)
    \/ LedgerStep

LedgerSeqSpec == Init /\ [][LedgerSeqNext]_vars

\* Amounts a caller of the balance service can pass: the service takes any
\* float.
SignedAmounts == {-50, 0, 50}

\* Direct calls of the balance service with amounts of either sign.
SignedLedgerNext ==
    \/ \E a \in SignedAmounts : CallCredit("u1", a)
    \/ \E a \in SignedAmounts : CallDebit("u1", a)
    \/ LedgerStep

SignedLedgerSpec == Init /\ [][SignedLedgerNext]_vars

\* Creation times; two rows can have the same one.
Stamps == {1, 2}

\* Any table of at most MaxRows rows, of any users and creation times.
Tables ==
    UNION {[1..n -> {StoredRow(0, u, c) : u \in Users, c \in Stamps}] : n \in 0..MaxRows}

HistoryInit ==
    /\ user_balances = <<>>
    /\ \E table \in Tables :
          balance_transactions = [k \in 1..Len(table) |-> [table[k] EXCEPT !.id = k]]
    /\ payment_transactions = <<>>
    /\ rowLock = [u \in Users |-> 0]
    /\ tasks = <<>>
    /\ cache_entries = <<>>
    /\ settings = DefaultSettings
    /\ chat_sessions = {}
    /\ chat_messages = <<>>

\* limit: int = Query(50, ge=1, le=100); offset: int = Query(0, ge=0)
Limits == {1, 2}
Offsets == {0, 1, 2}

HistoryNext ==
    \E u \in Users, limit \in Limits, offset \in Offsets :
        get_transaction_history(u, limit, offset)

HistorySpec == HistoryInit /\ [][HistoryNext]_vars

\* The chat cache written and read for every message list.
CacheNext ==
    \/ \E m \in MessageLists, r \in Responses : set_chat_response(m, r)
    \/ \E m \in MessageLists : get_chat_response(m)
    \/ \E m \in MessageLists : cache_expire(get_conversation_key(m))

CacheSpec == Init /\ [][CacheNext]_vars

\* Responses on both sides of the compression threshold.
RoundTripResponses == {"Hello!", "essay"}

\* The chat cache written with short and long responses, and read.
RoundTripNext ==
    \/ \E m \in MessageLists, r \in RoundTripResponses : set_chat_response(m, r)
    \/ \E m \in MessageLists : get_chat_response(m)
    \/ \E m \in MessageLists : cache_expire(get_conversation_key(m))

RoundTripSpec == Init /\ [][RoundTripNext]_vars

\* The service starts with any configuration and no session.
ChatInit ==
    /\ user_balances = <<>>
    /\ balance_transactions = <<>>
    /\ payment_transactions = <<>>
    /\ rowLock = [u \in Users |-> 0]
    /\ tasks = <<>>
    /\ cache_entries = <<>>
    /\ settings \in Settings
    /\ chat_sessions = {}
    /\ chat_messages = <<>>

\* Messages sent to one session with every selector.
ProviderNext ==
    \/ create_session
    \/ \E p \in Selectors : send_message_to_session("s1", <<"H", "i">>, p)
    \/ \E i \in TaskIds : chat_completion_respond(i, "Hello!")
    \/ \E i \in TaskIds : chat_completion_fails(i)

ProviderSpec == ChatInit /\ [][ProviderNext]_vars

\* The same question, written in two ways.
Questions == {<<"H", "i">>, <<" ", "h", "i", " ">>}

\* Sessions created and deleted, messages sent to and read from sessions
\* that exist or not, with replies on both sides of the compression
\* threshold.
ChatNext ==
    \/ create_session
    \/ \E session_id \in SessionIds : delete_session(session_id)
    \/ \E session_id \in SessionIds, c \in Questions :
          send_message_to_session(session_id, c, <<>>)
    \/ \E i \in TaskIds, r \in RoundTripResponses : chat_completion_respond(i, r)
    \/ \E i \in TaskIds : chat_completion_fails(i)
    \/ \E session_id \in SessionIds : get_session_messages(session_id)

ChatSpec == Init /\ [][ChatNext]_vars

\* Payment requests whose gateway calls succeed or fail.
PaymentRequestNext ==
    \/ \E a \in Amounts, order_ok \in BOOLEAN, link_ok \in BOOLEAN :
          create_upi_payment(a, order_ok, link_ok)
    \/ \E i \in TaskIds : create_payment_request_commit(i)
    \/ \E i \in TaskIds : create_payment_request_commit_fails(i)

PaymentRequestSpec == Init /\ [][PaymentRequestNext]_vars

\* Amounts a client can ask to add.
TopupAmounts == {0, 100, AmountLimit, AmountLimit + 1}

\* Payments of order o1 in each state the gateway can report.
VerifyPaymentIds == {"p1", "p4", "p5", "p6", "p7"}

\* Top-up by the client: order creation and verify-payment, against a
\* gateway whose calls can fail.
TopupNext ==
    \/ \E u \in Users, a \in TopupAmounts, g \in BOOLEAN : add_money(u, a, g)
    \/ \E u \in Users, p \in VerifyPaymentIds, g \in BOOLEAN :
          verify_and_credit_payment(u, p, "o1", g)
    \/ \E i \in TaskIds : credit_balance_execute(i)
    \/ \E i \in TaskIds : credit_balance_commit(i)

TopupSpec == Init /\ [][TopupNext]_vars

\* credit_balance calls against a store whose statements and commits can
\* fail.
CreditFaultNext ==
    \/ \E u \in Users, a \in Amounts : CallCredit(u, a)
    \/ \E i \in TaskIds : credit_balance_execute(i)
    \/ \E i \in TaskIds : credit_balance_commit(i)
    \/ \E i \in TaskIds : credit_balance_execute_fails(i)
    \/ \E i \in TaskIds : credit_balance_commit_fails(i)

CreditFaultSpec == Init /\ [][CreditFaultNext]_vars

\* Balance reads next to credits, all concurrent.
BalanceReadNext ==
    \/ \E u \in Users : CallGetBalance(u)
    \/ \E u \in Users, a \in Amounts : CallCredit(u, a)
    \/ \E i \in TaskIds : get_user_balance_select(i)
    \/ \E i \in TaskIds : get_user_balance_insert(i)
    \/ \E i \in TaskIds : credit_balance_execute(i)
    \/ \E i \in TaskIds : credit_balance_commit(i)

BalanceReadSpec == Init /\ [][BalanceReadNext]_vars

\* The wallet API under concurrent requests.
Next ==
    \/ create_payment_request
    \/ \E b \in Bodies, s \in Signatures, e \in EventIds : payment_webhook(b, s, e)
    \/ \E u \in Users, p \in PaymentIds, o \in OrderIds : verify_and_credit_payment(u, p, o, TRUE)
    \/ \E i \in TaskIds : process_wallet_webhook(i)
    \/ \E i \in TaskIds : credit_balance_execute(i)
    \/ \E i \in TaskIds : credit_balance_commit(i)
    \/ \E i \in TaskIds : handle_payment_captured_select(i)
    \/ \E i \in TaskIds : handle_payment_captured_commit(i)

Spec == Init /\ [][Next]_vars

\* background_tasks.add_task: the scheduled task runs after the response is
\* sent, and each of its awaits is resumed by the event loop.
BackgroundStep ==
    \E i \in TaskIds :
        \/ process_wallet_webhook(i)
        \/ credit_balance_execute(i)
        \/ credit_balance_commit(i)
        \/ handle_payment_captured_select(i)
        \/ handle_payment_captured_commit(i)

\* The gateway's events for a payment request, correctly signed, under any
\* event-id header.
EventNext ==
    \/ create_payment_request
    \/ \E b \in EventBodies, e \in HeaderEventIds : payment_webhook(b, Hmac(b), e)
    \/ \E i \in TaskIds : process_wallet_webhook(i)
    \/ \E i \in TaskIds : handle_payment_captured_select(i)
    \/ \E i \in TaskIds : handle_payment_captured_commit(i)
    \/ \E i \in TaskIds : handle_payment_failed_select(i)
    \/ \E i \in TaskIds : handle_payment_failed_commit(i)
    \/ \E i \in TaskIds : handle_payment_authorized_select(i)
    \/ \E i \in TaskIds : handle_payment_authorized_commit(i)

EventSpec == Init /\ [][EventNext]_vars

\* order.paid and refund events next to the capture of the same payment.
NotifyNext ==
    \/ create_payment_request
    \/ \E b \in NotifyBodies \cup {"captured_p3"}, e \in EventIds :
          payment_webhook(b, Hmac(b), e)
    \/ \E i \in TaskIds : process_wallet_webhook(i)
    \/ \E i \in TaskIds : handle_payment_captured_select(i)
    \/ \E i \in TaskIds : handle_payment_captured_commit(i)
    \/ \E i \in TaskIds : handle_order_paid_select(i)
    \/ \E i \in TaskIds : handle_order_paid_commit(i)
    \/ \E i \in TaskIds : handle_refund_created(i)
    \/ \E i \in TaskIds : handle_refund_processed(i)

NotifySpec == Init /\ [][NotifyNext]_vars

\* Every event the dispatcher handles, for the payment request's order o3
\* and for the top-up order o1, which has no PaymentTransaction.
RecordingBodies == EventBodies \cup NotifyBodies \cup {"captured_p1"}

RecordingNext ==
    \/ create_payment_request
    \/ \E b \in RecordingBodies, e \in EventIds : payment_webhook(b, Hmac(b), e)
    \/ \E i \in TaskIds : process_wallet_webhook(i)
    \/ \E i \in TaskIds : credit_balance_execute(i)
    \/ \E i \in TaskIds : credit_balance_commit(i)
    \/ \E i \in TaskIds : handle_payment_captured_select(i)
    \/ \E i \in TaskIds : handle_payment_captured_commit(i)
    \/ \E i \in TaskIds : handle_payment_failed_select(i)
    \/ \E i \in TaskIds : handle_payment_failed_commit(i)
    \/ \E i \in TaskIds : handle_payment_authorized_select(i)
    \/ \E i \in TaskIds : handle_payment_authorized_commit(i)
    \/ \E i \in TaskIds : handle_order_paid_select(i)
    \/ \E i \in TaskIds : handle_order_paid_commit(i)
    \/ \E i \in TaskIds : handle_refund_created(i)
    \/ \E i \in TaskIds : handle_refund_processed(i)

RecordingSpec == Init /\ [][RecordingNext]_vars

\* Webhook deliveries whose background task can fail at the gateway, in the
\* credit and in the store, and payloads without an event.
FaultyBodies == {"captured_p1", "captured_p3", "no_event"}

\* One delivery id: a redelivery of a recorded event is refused as duplicate.
FaultyEventIds == {<<"e", "1">>}

FaultyTaskStep ==
    \E i \in TaskIds :
        \/ process_wallet_webhook(i)
        \/ process_wallet_webhook_fetch_fails(i)
        \/ credit_balance_execute(i)
        \/ credit_balance_execute_fails(i)
        \/ credit_balance_commit(i)
        \/ credit_balance_commit_fails(i)
        \/ process_webhook_unhandled(i)
        \/ handle_payment_captured_select(i)
        \/ handle_payment_captured_select_fails(i)
        \/ handle_payment_captured_commit(i)
        \/ handle_payment_captured_commit_fails(i)

FaultyTaskNext ==
    \/ create_payment_request
    \/ \E b \in FaultyBodies, e \in FaultyEventIds : payment_webhook(b, Hmac(b), e)
    \/ \E i \in TaskIds : process_wallet_webhook(i)
    \/ \E i \in TaskIds : process_wallet_webhook_fetch_fails(i)
    \/ \E i \in TaskIds : credit_balance_execute(i)
    \/ \E i \in TaskIds : credit_balance_execute_fails(i)
    \/ \E i \in TaskIds : credit_balance_commit(i)
    \/ \E i \in TaskIds : credit_balance_commit_fails(i)
    \/ \E i \in TaskIds : process_webhook_unhandled(i)
    \/ \E i \in TaskIds : handle_payment_captured_select(i)
    \/ \E i \in TaskIds : handle_payment_captured_select_fails(i)
    \/ \E i \in TaskIds : handle_payment_captured_commit(i)
    \/ \E i \in TaskIds : handle_payment_captured_commit_fails(i)

\* Every started background task is resumed at each of its awaits.
FaultyTaskSpec == Init /\ [][FaultyTaskNext]_vars /\ WF_vars(FaultyTaskStep)

\* Captures delivered and redelivered under one event id, with a credit
\* step (order fetch, credit) that can fail and handlers that do not.
CreditStepStep ==
    \E i \in TaskIds :
        \/ process_wallet_webhook(i)
        \/ process_wallet_webhook_fetch_fails(i)
        \/ credit_balance_execute(i)
        \/ credit_balance_execute_fails(i)
        \/ credit_balance_commit(i)
        \/ credit_balance_commit_fails(i)
        \/ handle_payment_captured_select(i)
        \/ handle_payment_captured_commit(i)

CreditStepNext ==
    \/ create_payment_request
    \/ \E b \in {"captured_p1", "captured_p3"}, e \in FaultyEventIds :
          payment_webhook(b, Hmac(b), e)
    \/ \E i \in TaskIds : process_wallet_webhook(i)
    \/ \E i \in TaskIds : process_wallet_webhook_fetch_fails(i)
    \/ \E i \in TaskIds : credit_balance_execute(i)
    \/ \E i \in TaskIds : credit_balance_execute_fails(i)
    \/ \E i \in TaskIds : credit_balance_commit(i)
    \/ \E i \in TaskIds : credit_balance_commit_fails(i)
    \/ \E i \in TaskIds : handle_payment_captured_select(i)
    \/ \E i \in TaskIds : handle_payment_captured_commit(i)

CreditStepSpec == Init /\ [][CreditStepNext]_vars /\ WF_vars(CreditStepStep)

\* The X-Razorpay-Event-Id header: absent (read as ""), or an id.
OptionalEventIds == {<<>>, <<"e", "1">>}

\* Captures delivered with and without an event id, and with a duplicate
\* check whose query can raise.
DuplicateCheckNext ==
    \/ create_payment_request
    \/ \E b \in {"captured_p1", "captured_p3"}, e \in OptionalEventIds :
          payment_webhook(b, Hmac(b), e)
    \/ \E b \in {"captured_p1", "captured_p3"}, e \in OptionalEventIds :
          payment_webhook_check_fails(b, Hmac(b), e)
    \/ \E i \in TaskIds : process_wallet_webhook(i)
    \/ \E i \in TaskIds : credit_balance_execute(i)
    \/ \E i \in TaskIds : credit_balance_commit(i)
    \/ \E i \in TaskIds : handle_payment_captured_select(i)
    \/ \E i \in TaskIds : handle_payment_captured_commit(i)

DuplicateCheckSpec == Init /\ [][DuplicateCheckNext]_vars

\* Correctly signed webhook deliveries, with background tasks that are
\* scheduled fairly.
FairNext ==
    \/ create_payment_request
    \/ \E b \in Bodies, e \in EventIds : payment_webhook(b, Hmac(b), e)
    \/ \E i \in TaskIds : process_wallet_webhook(i)
    \/ \E i \in TaskIds : credit_balance_execute(i)
    \/ \E i \in TaskIds : credit_balance_commit(i)
    \/ \E i \in TaskIds : handle_payment_captured_select(i)
    \/ \E i \in TaskIds : handle_payment_captured_commit(i)

FairSpec == Init /\ [][FairNext]_vars /\ WF_vars(BackgroundStep)

-----------------------------------------------------------------------------
(* Properties *)

Rows == {balance_transactions[k] : k \in 1..Len(balance_transactions)}

RowsBy(i) == {r \in Rows : r.by = i}

RECURSIVE SumAmounts(_)
SumAmounts(rows) ==
    IF rows = {} THEN 0
    ELSE LET r == CHOOSE x \in rows : TRUE IN r.amount + SumAmounts(rows \ {r})

TotalCredits(u) == SumAmounts({r \in Rows : r.user_id = u /\ r.transaction_type = "credit"})
TotalDebits(u) == SumAmounts({r \in Rows : r.user_id = u /\ r.transaction_type = "debit"})

\* C1: when credit_balance and debit_balance calls run one after the other
\* from an empty store, every user's stored balance equals the sum of the
\* user's credit rows minus the sum of the user's debit rows.
C1_BalanceEqualsLog ==
    \A u \in Users : BalanceOf(u) = TotalCredits(u) - TotalDebits(u)

\* Three calls on u1 have committed: credits and a debit among them.
C1_Witness ==
    /\ Quiescent
    /\ Cardinality({r \in Rows : r.user_id = "u1" /\ r.transaction_type = "credit"}) = 2
    /\ Cardinality({r \in Rows : r.user_id = "u1" /\ r.transaction_type = "debit"}) = 1
    /\ BalanceOf("u1") = 50

\* C6: a debit_balance call that finds the balance below its amount (or no
\* row) returns failure in that step, and the step changes neither the
\* balances nor the transaction log.
C6_InsufficientDebitFails ==
    [][\A i \in TaskIds :
          (/\ tasks[i].pc = "debit_select"
           /\ tasks'[i].pc # "debit_select"
           /\ BalanceOf(tasks[i].user_id) < tasks[i].amount)
          => (/\ tasks'[i].pc = "done"
              /\ tasks'[i].status = "insufficient"
              /\ user_balances' = user_balances
              /\ balance_transactions' = balance_transactions)]_vars

\* A debit of 100 was refused on a row that holds 50.
C6_Witness ==
    \E i \in TaskIds :
        /\ tasks[i].kind = "debit"
        /\ tasks[i].status = "insufficient"
        /\ tasks[i].amount = 100
        /\ HasRow(tasks[i].user_id)
        /\ tasks[i].seen = 50
        /\ RowsBy(i) = {}

\* C7: two debit_balance calls on the same user serialize: no two of them
\* both succeed after reading the same state of the ledger, so the second
\* decides on the balance the first has left.
C7_DebitsSerialize ==
    \A i, j \in TaskIds :
        (/\ i # j
         /\ tasks[i].kind = "debit" /\ tasks[j].kind = "debit"
         /\ tasks[i].user_id = tasks[j].user_id
         /\ RowsBy(i) # {} /\ RowsBy(j) # {})
        => tasks[i].seenLog # tasks[j].seenLog

\* C8: every stored balance is greater than or equal to zero.
C8_BalanceNonNegative ==
    \A u \in DOMAIN user_balances : user_balances[u] >= 0

\* Two debits of the same user read the same balance and both committed.
C8_Witness ==
    \E i, j \in TaskIds :
        /\ i # j
        /\ tasks[i].kind = "debit" /\ tasks[j].kind = "debit"
        /\ tasks[i].user_id = tasks[j].user_id
        /\ RowsBy(i) # {} /\ RowsBy(j) # {}
        /\ tasks[i].seenLog = tasks[j].seenLog

CreditTasks(u) == {i \in TaskIds : tasks[i].kind = "credit" /\ tasks[i].user_id = u}

RECURSIVE SumTaskAmounts(_)
SumTaskAmounts(is) ==
    IF is = {} THEN 0
    ELSE LET i == CHOOSE x \in is : TRUE IN tasks[i].amount + SumTaskAmounts(is \ {i})

\* C9: while only credit_balance calls run, in any interleaving, every call
\* that has returned has succeeded and left exactly one credit row, the
\* balance is the sum of the amounts of the calls that have returned (100
\* and 50 give 150), and a call that has not returned can go on or waits
\* for one that can.
C9_CreditsAccumulate ==
    (\A i \in TaskIds : tasks[i].kind = "credit")
    => /\ \A u \in Users :
            /\ BalanceOf(u) = SumTaskAmounts(CreditTasks(u) \cap DoneTasks)
            /\ Cardinality({r \in Rows : r.user_id = u})
                  = Cardinality(CreditTasks(u) \cap DoneTasks)
       /\ \A i \in DoneTasks : tasks[i].status = "ok" /\ Cardinality(RowsBy(i)) = 1
       /\ (~Quiescent => ENABLED LedgerStep)

\* Credits of 100 and 50 to u1, which had no row, overlapped and returned.
C9_Witness ==
    \E i, j \in TaskIds :
        /\ i < j
        /\ i \notin tasks[j].priorDone
        /\ tasks[i].kind = "credit" /\ tasks[j].kind = "credit"
        /\ tasks[i].user_id = "u1" /\ tasks[j].user_id = "u1"
        /\ tasks[i].amount = 100 /\ tasks[j].amount = 50
        /\ tasks[i].pc = "done" /\ tasks[j].pc = "done"
        /\ Len(balance_transactions) = 2
        /\ BalanceOf("u1") = 150

ValidDelivery(i) ==
    /\ tasks[i].kind = "webhook"
    /\ verify_webhook_signature(tasks[i].body, tasks[i].signature)

RowsOfPayment(p) == {r \in Rows : r.reference_id = p /\ r.reference_type = "payment"}

\* C2: when the payment.captured webhook of a top-up is delivered again with
\* the same body, signature and event id after the first delivery has been
\* fully processed, the second delivery is answered duplicate_event_skipped
\* and the payment has at most one credit row.
C2_ReplayCreditsOnce ==
    \A i, j \in TaskIds :
        (/\ i < j
         /\ ValidDelivery(i) /\ ValidDelivery(j)
         /\ tasks[i].body = tasks[j].body
         /\ tasks[i].event_id = tasks[j].event_id
         /\ WebhookJson(tasks[i].body).event = "payment.captured"
         /\ OrderNotes(WebhookJson(tasks[i].body).order_id).payment_type = "balance_topup"
         /\ i \in tasks[j].priorDone
         /\ tasks[j].pc = "done")
        => /\ tasks[j].status = "duplicate_event_skipped"
           /\ Cardinality(RowsOfPayment(WebhookJson(tasks[j].body).id)) <= 1

\* C3: the payment.captured webhook of a payment and verify-payment for the
\* same payment do not both credit it.
C3_WebhookAndVerifyCreditOnce ==
    \A i, j \in TaskIds :
        (/\ tasks[i].kind = "webhook" /\ tasks[j].kind = "verify"
         /\ tasks[i].payment_id = tasks[j].payment_id)
        => ~(RowsBy(i) # {} /\ RowsBy(j) # {})

\* C4: a verify-payment call made after an earlier call for the same
\* payment id and user has credited the wallet does not credit it again.
C4_VerifyCreditsOnce ==
    \A i, j \in TaskIds :
        (/\ i < j
         /\ tasks[i].kind = "verify" /\ tasks[j].kind = "verify"
         /\ tasks[i].payment_id = tasks[j].payment_id
         /\ tasks[i].user_id = tasks[j].user_id
         /\ i \in tasks[j].priorDone
         /\ RowsBy(i) # {})
        => tasks[j].status # "credited" /\ RowsBy(j) = {}

\* C5: a webhook request whose signature does not verify is answered with
\* HTTP 400 and goes no further, whatever its body.
C5_InvalidSignatureRejected ==
    \A i \in TaskIds :
        (/\ tasks[i].kind = "webhook"
         /\ ~verify_webhook_signature(tasks[i].body, tasks[i].signature))
        => tasks[i].http = 400 /\ tasks[i].pc = "done" /\ RowsBy(i) = {}

\* C10: every credit row written for a webhook or a verify-payment request
\* belongs to an order whose notes say balance_topup and name the credited
\* user, and a verify-payment for a user the order's notes do not name is
\* answered without a credit.
C10_CreditOnlyForNotedUser ==
    /\ \A r \in Rows :
          /\ OrderNotes(tasks[r.by].order_id).payment_type = "balance_topup"
          /\ OrderNotes(tasks[r.by].order_id).user_id = r.user_id
    /\ \A i \in TaskIds :
          (/\ tasks[i].kind = "verify"
           /\ OrderNotes(tasks[i].order_id).user_id # tasks[i].user_id)
          => /\ tasks[i].pc = "done"
             /\ tasks[i].status = "mismatch"
             /\ RowsBy(i) = {}

\* u1 called verify-payment with the captured payment p1 on u2's order o2,
\* and nobody was credited.
C10_Witness ==
    \E i \in TaskIds :
        /\ tasks[i].kind = "verify"
        /\ tasks[i].user_id = "u1"
        /\ tasks[i].order_id = "o2"
        /\ tasks[i].payment_id = "p1"
        /\ tasks[i].status = "mismatch"
        /\ Rows = {}

AcceptedTopup(i) ==
    /\ tasks[i].kind = "webhook"
    /\ tasks[i].status = "webhook_accepted"
    /\ WebhookJson(tasks[i].body).event = "payment.captured"
    /\ OrderNotes(WebhookJson(tasks[i].body).order_id).payment_type = "balance_topup"

BeforeCredit(i) ==
    tasks[i].pc \in {"process_wallet_webhook", "credit_execute", "credit_commit"}

C11_OneCreditRow ==
    \A i \in TaskIds :
        AcceptedTopup(i) =>
            LET data == WebhookJson(tasks[i].body) IN
            IF BeforeCredit(i)
            THEN RowsBy(i) = {}
            ELSE \E r \in Rows :
                    /\ RowsBy(i) = {r}
                    /\ r.transaction_type = "credit"
                    /\ r.user_id = OrderNotes(data.order_id).user_id
                    /\ r.amount = OrderAmount(data.order_id)
                    /\ r.reference_type = "payment"
                    /\ r.reference_id = data.id

C11_BalanceRaised ==
    \A i \in TaskIds :
        (AcceptedTopup(i) /\ BeforeCredit(i) /\ ~BeforeCredit(i)') =>
            LET o == WebhookJson(tasks[i].body).order_id
                u == OrderNotes(o).user_id
            IN  /\ u \in DOMAIN user_balances'
                /\ user_balances'[u] = BalanceOf(u) + OrderAmount(o)

\* C11: a payment.captured webhook of a top-up order that was accepted
\* leaves, once its background task has passed the credit, exactly one
\* credit row (the order's user and amount, reference_type payment,
\* reference_id the payment id) and none before; the step that writes the
\* row raises that user's balance by exactly the order's amount.
C11_TopupCredited == []C11_OneCreditRow /\ [][C11_BalanceRaised]_vars

\* The webhook for p1 (order o1: 100 for u1) was processed on top of an
\* earlier balance of 100.
C11_Witness ==
    \E i \in TaskIds :
        /\ AcceptedTopup(i)
        /\ tasks[i].pc = "done"
        /\ i > 1
        /\ RowsBy(1) # {}
        /\ RowsBy(i) # {}
        /\ balance_transactions[2].by = i
        /\ BalanceOf("u1") = 200

\* C12: two deliveries of the same payment.captured event of a top-up (same
\* body, signature and event id) of which the second passed the duplicate
\* check while the first was still being processed do not both write a
\* credit row.
C12_OverlappingReplayCreditsOnce ==
    \A i, j \in TaskIds :
        (/\ i < j
         /\ AcceptedTopup(i) /\ AcceptedTopup(j)
         /\ tasks[i].body = tasks[j].body
         /\ tasks[i].signature = tasks[j].signature
         /\ tasks[i].event_id = tasks[j].event_id
         /\ i \notin tasks[j].priorDone)
        => ~(RowsBy(i) # {} /\ RowsBy(j) # {})

\* C14: the webhook endpoint answers HTTP 400 exactly for the requests whose
\* signature does not verify; every other request is answered HTTP 200 with
\* status webhook_accepted, duplicate_event_skipped or error_logged.
C14_Http400IffSignatureFails ==
    \A i \in TaskIds :
        tasks[i].kind = "webhook" =>
            IF tasks[i].signature = Hmac(tasks[i].body)
            THEN /\ tasks[i].http = 200
                 /\ tasks[i].status \in {"webhook_accepted", "duplicate_event_skipped",
                                         "error_logged"}
            ELSE tasks[i].http = 400

LedgerOrPaymentsChanged ==
    \/ user_balances' # user_balances
    \/ balance_transactions' # balance_transactions
    \/ payment_transactions' # payment_transactions

\* The request handler itself writes nothing, and schedules the background
\* task only for a verified signature and an event id not found.
C16_HandlerStep ==
    Len(tasks') > Len(tasks) =>
        LET t == tasks'[Len(tasks')] IN
        t.kind = "webhook" =>
            /\ ~LedgerOrPaymentsChanged
            /\ t.pc # "done" =>
                  /\ t.signature = Hmac(t.body)
                  /\ ~check_duplicate_event(t.event_id)
                  /\ t.status = "webhook_accepted"
                  /\ t.pc = "process_wallet_webhook"

\* A step of a webhook delivery that writes is a step of its background task.
C16_BackgroundStep ==
    \A i \in TaskIds :
        (/\ tasks[i].kind = "webhook"
         /\ tasks'[i] # tasks[i]
         /\ LedgerOrPaymentsChanged)
        => /\ tasks[i].signature = Hmac(tasks[i].body)
           /\ tasks[i].status = "webhook_accepted"
           /\ tasks[i].pc \in {"credit_commit", "captured_commit"}

\* C16: a webhook delivery changes balances, the transaction log or a
\* payment transaction only in its background task, which exists only when
\* the handler found the signature valid and the event id not recorded.
C16_MutationOnlyAfterChecks == [][C16_HandlerStep /\ C16_BackgroundStep]_vars

\* One delivery has credited a wallet and another has completed a payment
\* transaction.
C16_Witness ==
    /\ \E i \in TaskIds : tasks[i].kind = "webhook" /\ RowsBy(i) # {}
    /\ \E t \in DOMAIN payment_transactions :
          /\ payment_transactions[t].status = "completed"
          /\ payment_transactions[t].notes # <<>>

\* C17: every payment.captured delivery of a top-up order that was answered
\* webhook_accepted eventually has its credit row committed and its amount
\* in the user's balance, when background tasks are scheduled fairly.
C17_AcceptedTopupEventuallyCredited ==
    \A i \in 1..MaxReqs :
        (i \in TaskIds /\ AcceptedTopup(i))
        ~> (/\ RowsBy(i) # {}
            /\ BalanceOf(OrderNotes(WebhookJson(tasks[i].body).order_id).user_id)
                 >= OrderAmount(WebhookJson(tasks[i].body).order_id))

\* One accepted delivery has been credited while a later accepted delivery
\* is still waiting for its background task.
C17_Witness ==
    \E i, j \in TaskIds :
        /\ i < j
        /\ AcceptedTopup(i) /\ AcceptedTopup(j)
        /\ tasks[i].pc = "done"
        /\ RowsBy(i) # {}
        /\ BalanceOf("u1") = OrderAmount("o1")
        /\ tasks[j].pc = "process_wallet_webhook"

C13_AuthorizedStep ==
    \A t \in DOMAIN payment_transactions :
        (/\ payment_transactions[t].status # "authorized"
         /\ payment_transactions'[t].status = "authorized")
        => payment_transactions[t].status = "created"

\* C13: a payment transaction's status becomes authorized only from
\* created; a record that is completed or failed keeps its status when a
\* payment.authorized event is processed.
C13_AuthorizedOnlyFromCreated == [][C13_AuthorizedStep]_vars

RecordedBy(e) ==
    {i \in TaskIds : /\ tasks[i].event_id = e
                     /\ tasks[i].status = "webhook_accepted"
                     /\ tasks[i].pc = "done"}

\* C15: check_duplicate_event(E) is true only when a delivery with exactly
\* the event id E was processed before.
C15_DuplicateOnlyForRecordedId ==
    \A e \in HeaderEventIds : check_duplicate_event(e) => RecordedBy(e) # {}

\* C18: every get_user_balance call returns: with zero and a new row for a
\* user that had none, with the stored balance otherwise; also when two
\* first reads of one user overlap.
C18_BalanceReadNeverFails ==
    \A i \in TaskIds :
        (tasks[i].kind = "get_balance" /\ tasks[i].pc = "done")
        => /\ tasks[i].status = "ok"
           /\ HasRow(tasks[i].user_id)

C19_LogStep ==
    /\ Len(balance_transactions') >= Len(balance_transactions)
    /\ \A k \in 1..Len(balance_transactions) :
          balance_transactions'[k] = balance_transactions[k]

\* C19: every step of the balance service leaves each committed
\* BalanceTransaction row in the log with all its fields as they were.
C19_LogAppendOnly == [][C19_LogStep]_vars

\* A credit row and, after it, a debit row of the same user are in the log.
C19_Witness ==
    /\ Len(balance_transactions) >= 2
    /\ balance_transactions[1].transaction_type = "credit"
    /\ balance_transactions[2].transaction_type = "debit"
    /\ balance_transactions[1].user_id = balance_transactions[2].user_id

OkCredits(u) == {i \in CreditTasks(u) : tasks[i].status = "ok"}

\* C20: with failing statements and commits, every committed state has each
\* user's balance equal to the sum of the user's credit rows, one row for
\* each call that returned True and none for a call that raised.
C20_CreditAllOrNothing ==
    /\ \A u \in Users :
          /\ BalanceOf(u) = TotalCredits(u)
          /\ BalanceOf(u) = SumTaskAmounts(OkCredits(u))
    /\ \A i \in TaskIds :
          /\ tasks[i].status = "ok" => Cardinality(RowsBy(i)) = 1
          /\ tasks[i].status # "ok" => RowsBy(i) = {}

\* A credit of 100 to u1 failed at its commit, after its upsert had been
\* executed, and a credit of 50 to u1 succeeded.
C20_Witness ==
    \E i, j \in TaskIds :
        /\ tasks[i].user_id = "u1" /\ tasks[j].user_id = "u1"
        /\ tasks[i].status = "error" /\ tasks[i].amount = 100
        /\ tasks[j].status = "ok" /\ tasks[j].amount = 50
        /\ BalanceOf("u1") = 50
        /\ Len(balance_transactions) = 1

\* C21: no BalanceTransaction row has an amount of zero or less, and a
\* credit_balance or debit_balance call with such an amount does not
\* succeed, so it changes no balance.
C21_AmountsPositive ==
    /\ \A r \in Rows : r.amount > 0
    /\ \A i \in TaskIds :
          (tasks[i].kind \in {"credit", "debit"} /\ tasks[i].amount <= 0)
          => tasks[i].status # "ok"

GatewayFailed(i) ==
    /\ ~tasks[i].gateway_ok
    /\ \/ tasks[i].kind = "verify"
       \/ tasks[i].kind = "add_money" /\ validate_amount(tasks[i].amount)

\* C22: a verify-payment or order-creation request whose gateway call failed
\* is answered with an error and writes no transaction row, and every
\* balance is the sum of the rows written by the other requests.
C22_GatewayFailureNoMutation ==
    /\ \A i \in TaskIds :
          GatewayFailed(i) => /\ tasks[i].pc = "done"
                              /\ tasks[i].http = 400
                              /\ RowsBy(i) = {}
    /\ \A u \in Users : BalanceOf(u) = TotalCredits(u)

\* One verify-payment failed at the gateway and another, for the same
\* payment and user, was credited.
C22_Witness ==
    \E i, j \in TaskIds :
        /\ tasks[i].kind = "verify" /\ tasks[j].kind = "verify"
        /\ tasks[i].payment_id = "p1" /\ tasks[j].payment_id = "p1"
        /\ tasks[i].user_id = "u1" /\ tasks[j].user_id = "u1"
        /\ ~tasks[i].gateway_ok /\ tasks[i].status = "verification_failed"
        /\ tasks[j].status = "credited"
        /\ BalanceOf("u1") = 100

\* C23: a verify-payment for a payment the gateway reports as anything but
\* captured is answered success false, not credited, and writes no row;
\* every row written by verify-payment is for a captured payment.
C23_CreditOnlyWhenCaptured ==
    /\ \A i \in TaskIds :
          (/\ tasks[i].kind = "verify" /\ tasks[i].gateway_ok
           /\ PaymentDetails(tasks[i].payment_id).status # "captured")
          => /\ tasks[i].pc = "done"
             /\ tasks[i].http = 200
             /\ tasks[i].status = "not_captured"
             /\ RowsBy(i) = {}
    /\ \A r \in Rows :
          tasks[r.by].kind = "verify"
          => PaymentDetails(tasks[r.by].payment_id).status = "captured"

\* An authorized payment of u1's order was refused after the captured one
\* had been credited.
C23_Witness ==
    \E i, j \in TaskIds :
        /\ tasks[i].kind = "verify" /\ tasks[i].payment_id = "p1"
        /\ tasks[i].status = "credited"
        /\ tasks[j].kind = "verify" /\ tasks[j].payment_id = "p4"
        /\ tasks[j].user_id = "u1" /\ tasks[j].gateway_ok
        /\ tasks[j].status = "not_captured"
        /\ Len(balance_transactions) = 1

C29_OrderStep ==
    (Len(tasks') > Len(tasks) /\ tasks'[Len(tasks')].kind = "add_money")
    => /\ user_balances' = user_balances
       /\ balance_transactions' = balance_transactions

C29_OrderState ==
    /\ \A i \in TaskIds :
          tasks[i].kind = "add_money"
          => /\ tasks[i].pc = "done"
             /\ RowsBy(i) = {}
             /\ tasks[i].status = "order_created"
                   => (0 < tasks[i].amount /\ tasks[i].amount <= 200000)
    /\ \A r \in Rows :
          /\ tasks[r.by].kind = "verify"
          /\ PaymentDetails(tasks[r.by].payment_id).status = "captured"
    /\ \A u \in Users : BalanceOf(u) = TotalCredits(u)

\* C29: add_money creates an order only for 0 < amount <= 200000 and, with
\* or without success, changes no balance and writes no row; balances
\* change only with the rows of reconciled captured payments.
C29_OrderCreationNoCredit == []C29_OrderState /\ [][C29_OrderStep]_vars

\* An order for 200000 was created and one for 200001 refused.
C29_Witness ==
    \E i, j \in TaskIds :
        /\ tasks[i].kind = "add_money" /\ tasks[j].kind = "add_money"
        /\ tasks[i].amount = 200000 /\ tasks[i].status = "order_created"
        /\ tasks[j].amount = 200001 /\ tasks[j].status = "validation_error"

C24_CapturedStep ==
    \A t \in DOMAIN payment_transactions :
        (/\ payment_transactions[t].status # "completed"
         /\ payment_transactions'[t].status = "completed")
        => payment_transactions[t].status \in {"created", "authorized"}

\* C24: a payment transaction becomes completed only from created or
\* authorized; a payment.captured event for a record that is failed, paid
\* or completed leaves its status as it is.
C24_CapturedOnlyFromOpen == [][C24_CapturedStep]_vars

FailedEvent(i) ==
    tasks[i].kind = "webhook" /\ WebhookJson(tasks[i].body).event = "payment.failed"

C25_FailedStep ==
    /\ \A i \in TaskIds :
          (FailedEvent(i) /\ tasks'[i] # tasks[i])
          => /\ user_balances' = user_balances
             /\ balance_transactions' = balance_transactions
    /\ \A t \in DOMAIN payment_transactions :
          payment_transactions[t].status = "completed"
          => payment_transactions'[t].status # "failed"

\* C25: processing payment.failed changes no balance and writes no
\* transaction row, and a completed payment transaction never becomes
\* failed.
C25_FailedKeepsCompleted == [][C25_FailedStep]_vars

NotifyEvent(i) ==
    /\ tasks[i].kind = "webhook"
    /\ WebhookJson(tasks[i].body).event \in {"order.paid", "refund.created", "refund.processed"}

C26_NotifyStep ==
    \A i \in TaskIds :
        (NotifyEvent(i) /\ tasks'[i] # tasks[i])
        => /\ user_balances' = user_balances
           /\ balance_transactions' = balance_transactions
           /\ DOMAIN payment_transactions' = DOMAIN payment_transactions
           /\ \A t \in DOMAIN payment_transactions :
                 \/ payment_transactions'[t] = payment_transactions[t]
                 \/ /\ WebhookJson(tasks[i].body).event = "order.paid"
                    /\ payment_transactions[t].order_id = WebhookJson(tasks[i].body).id
                    /\ payment_transactions'[t].status = "paid"
                    /\ payment_transactions'[t].order_id = payment_transactions[t].order_id
                    /\ payment_transactions'[t].payment_id = payment_transactions[t].payment_id
                    /\ payment_transactions'[t].notes = payment_transactions[t].notes

\* C26: every step of an order.paid, refund.created or refund.processed
\* delivery leaves balances and the transaction log as they were; a refund
\* step leaves every payment transaction as it was, and an order.paid step
\* changes at most the status, to paid, of the record with the order's id.
C26_NotifyFrame == [][C26_NotifyStep]_vars

\* order.paid was applied after the capture: the record is paid and keeps
\* the payment id and the event id the capture wrote.
C26_Witness ==
    \E t \in DOMAIN payment_transactions :
        /\ payment_transactions[t].status = "paid"
        /\ payment_transactions[t].payment_id = "p3"
        /\ payment_transactions[t].notes # <<>>
        /\ \E i \in TaskIds :
              /\ WebhookJson(tasks[i].body).event = "order.paid"
              /\ tasks[i].tracking_id = t
              /\ tasks[i].pc = "done"

RowsOfUser(u) == {r \in Rows : r.user_id = u}

HistoryTasks == {i \in TaskIds : tasks[i].kind = "history"}

C28_HistoryState ==
    \A i \in HistoryTasks :
        LET res == tasks[i].result
            mine == RowsOfUser(tasks[i].user_id)
            rest == Cardinality(mine) - tasks[i].offset
        IN  /\ \A k \in 1..Len(res) : res[k] \in mine
            /\ \A a, b \in 1..Len(res) : a # b => res[a].id # res[b].id
            /\ \A a, b \in 1..Len(res) : a < b => res[a].created_at >= res[b].created_at
            /\ Len(res) = (IF rest < 0 THEN 0 ELSE Min(tasks[i].limit, rest))
            /\ \A k \in 1..Len(res) :
                  /\ Cardinality({r \in mine : r.created_at > res[k].created_at})
                        <= tasks[i].offset + k - 1
                  /\ Cardinality({r \in mine : r.created_at >= res[k].created_at})
                        >= tasks[i].offset + k

C28_HistoryStep ==
    /\ user_balances' = user_balances
    /\ balance_transactions' = balance_transactions
    /\ payment_transactions' = payment_transactions

\* C28: a history query returns rows of its user only, newest first, as many
\* as limit allows of those left after the first offset rows of that order,
\* each at the place its creation time gives it, and changes no table.
C28_HistoryPage == []C28_HistoryState /\ [][C28_HistoryStep]_vars

\* Three rows of u1 exist; a query with limit 1 and offset 1 returned the
\* one in the middle.
C28_Witness ==
    \E i \in HistoryTasks :
        /\ tasks[i].user_id = "u1"
        /\ Cardinality(RowsOfUser("u1")) = 3
        /\ tasks[i].limit = 1 /\ tasks[i].offset = 1
        /\ Len(tasks[i].result) = 1
        /\ \E r \in RowsOfUser("u1") : r.created_at > tasks[i].result[1].created_at

\* The content of the most recent user message of a list, normalized.
RECURSIVE LastUserContent(_)
LastUserContent(messages) ==
    IF messages = <<>> THEN <<>>
    ELSE IF messages[Len(messages)].role = "user"
         THEN Lower(Strip(messages[Len(messages)].content))
         ELSE LastUserContent(SubSeq(messages, 1, Len(messages) - 1))

SameQuestion(m1, m2) == LastUserContent(m1) = LastUserContent(m2)

C30_SameKey ==
    \A m1, m2 \in MessageLists :
        SameQuestion(m1, m2) => get_conversation_key(m1) = get_conversation_key(m2)

C30_ReadStep ==
    (Len(tasks') > Len(tasks) /\ tasks'[Len(tasks')].kind = "cache_get")
    => \A k \in DOMAIN cache_entries :
          SameQuestion(cache_entries[k].set_for, tasks'[Len(tasks')].messages)
          => tasks'[Len(tasks')].result = <<cache_entries[k].text>>

C27_Terminates ==
    \A i \in 1..MaxReqs :
        (i \in TaskIds /\ tasks[i].kind = "webhook")
        ~> (i \in TaskIds /\ tasks[i].pc = "done")

\* A correctly signed delivery with an event id that is not recorded is
\* accepted, whatever happened to earlier deliveries.
C27_AcceptStep ==
    Len(tasks') > Len(tasks) =>
        LET t == tasks'[Len(tasks')] IN
        (/\ t.kind = "webhook"
         /\ WebhookJson(t.body).parses
         /\ t.signature = Hmac(t.body)
         /\ ~check_duplicate_event(t.event_id))
        => t.status = "webhook_accepted" /\ t.pc = "process_wallet_webhook"

\* A top-up delivery in whose own task nothing was raised has its credit
\* row when it is done, also after another task has failed.
C27_Processed ==
    \A i \in TaskIds :
        (AcceptedTopup(i) /\ tasks[i].pc = "done" /\ ~tasks[i].raised)
        => Cardinality(RowsBy(i)) = 1

\* C27: every background webhook task ends, whatever was raised in it (a
\* payload without event, a failed order fetch, a failed credit, a failed
\* store call), and later deliveries are accepted and processed as if
\* nothing had failed.
C27_TaskErrorsContained == C27_Terminates /\ []C27_Processed /\ [][C27_AcceptStep]_vars

\* The first delivery's credit failed at its commit and the task ended; a
\* later delivery of the same payment was accepted and credited.
C27_Witness ==
    \E i, j \in TaskIds :
        /\ i < j
        /\ i \in tasks[j].priorDone
        /\ AcceptedTopup(i) /\ tasks[i].raised /\ RowsBy(i) = {}
        /\ AcceptedTopup(j) /\ ~tasks[j].raised /\ tasks[j].pc = "done"
        /\ RowsBy(j) # {}

\* A read of a message list whose key holds an entry returns the stored
\* response.
C31_ReadStep ==
    (Len(tasks') > Len(tasks) /\ tasks'[Len(tasks')].kind = "cache_get")
    => LET key == get_conversation_key(tasks'[Len(tasks')].messages) IN
       key \in DOMAIN cache_entries
       => tasks'[Len(tasks')].result = <<cache_entries[key].text>>

\* C31: after set_chat_response(messages, r) and before the entry expires,
\* get_chat_response(messages) returns r, for responses longer than the
\* compression threshold (stored compressed) and for shorter ones.
C31_RoundTrip == [][C31_ReadStep]_vars

SendTasks == {i \in TaskIds : tasks[i].kind = "send_message"}

\* An absent selector gives the configured default backend and that
\* backend's default model.
C32_Default ==
    \A i \in SendTasks :
        tasks[i].provider = <<>> =>
            /\ tasks[i].backend = settings.DEFAULT_LLM_BACKEND
            /\ tasks[i].model = IF settings.DEFAULT_LLM_BACKEND = LmStudioName
                                THEN LM_STUDIO_DEFAULT_MODEL ELSE DEFAULT_MODEL

\* A selector with a slash is its backend, a slash and its model, and the
\* backend has no slash in it.
C32_Split ==
    \A i \in SendTasks :
        (\E k \in 1..Len(tasks[i].provider) : tasks[i].provider[k] = "/") =>
            /\ tasks[i].provider = tasks[i].backend \o <<"/">> \o tasks[i].model
            /\ \A k \in 1..Len(tasks[i].backend) : tasks[i].backend[k] # "/"

\* The backend a request selects: the one it names, the default one when
\* it names none.
C32_Selected(i) ==
    IF tasks[i].backend = <<>> THEN settings.DEFAULT_LLM_BACKEND ELSE tasks[i].backend

\* The local service serves a request only if it is selected and enabled;
\* the remote service serves every other request.
C32_Service ==
    \A i \in SendTasks :
        tasks[i].service # None =>
            tasks[i].service =
                IF C32_Selected(i) = LmStudioName /\ settings.LM_STUDIO_ENABLED
                THEN "lm_studio_service" ELSE "openrouter_service"

\* C32: the backend and model of a request come from its selector (absent:
\* the configured default backend with its default model; with a slash:
\* split at the first slash), and the local service is used only when it is
\* selected, configured and enabled, the remote one otherwise.
C32_BackendSelection == C32_Default /\ C32_Split /\ C32_Service

\* With the local backend disabled, a request naming it was answered by the
\* remote service; a model name with a slash in it was kept whole.
C32_Witness ==
    /\ ~settings.LM_STUDIO_ENABLED
    /\ \E i, j \in SendTasks :
          /\ tasks[i].provider = <<"lm_studio", "/", "gemma-7b-it">>
          /\ tasks[i].service = "openrouter_service"
          /\ tasks[i].calls = 1 /\ tasks[i].http = 200
          /\ tasks[j].backend = OpenRouterName
          /\ tasks[j].model = <<"meta-llama", "/", "llama-3.3-70b-instruct">>

\* A request for a session that does not exist is answered 404 at once and
\* changes neither the message log nor the cache.
C33_RequestStep ==
    Len(tasks') > Len(tasks) =>
        LET t == tasks'[Len(tasks')] IN
        (t.kind \in {"send_message", "get_messages"} /\ t.session_id \notin chat_sessions)
        => /\ t.http = 404 /\ t.status = "SESSION_NOT_FOUND" /\ t.pc = "done"
           /\ t.calls = 0
           /\ chat_messages' = chat_messages
           /\ cache_entries' = cache_entries

\* A request answered 404 has made no backend call.
C33_NoCall ==
    \A i \in TaskIds : tasks[i].http = 404 => tasks[i].calls = 0 /\ tasks[i].pc = "done"

\* C33: sending a message to, or reading the history of, a session that
\* does not exist fails with not-found before any backend call, and stores
\* no message and writes no cache entry.
C33_UnknownSession == []C33_NoCall /\ [][C33_RequestStep]_vars

\* While another session existed, a send and a read for a missing session
\* were both answered 404.
C33_Witness ==
    /\ chat_sessions # {}
    /\ \E i, j \in TaskIds :
          /\ tasks[i].kind = "send_message" /\ tasks[i].http = 404
          /\ tasks[j].kind = "get_messages" /\ tasks[j].http = 404

\* A message sent to an existing session: when the cache returns a text
\* for the conversation, that text is the answer, no backend call is made
\* and nothing is stored; when it returns none, the backend is called next.
C37_LookupStep ==
    Len(tasks') > Len(tasks) =>
        LET t == tasks'[Len(tasks')]
            cached_response ==
                ChatResponseOf(get_message_history(t.session_id)
                               \o <<Message("user", t.content)>>) IN
        (t.kind = "send_message" /\ t.session_id \in chat_sessions)
        => /\ chat_messages' = chat_messages
           /\ cache_entries' = cache_entries
           /\ t.calls = 0
           /\ IF cached_response # <<>>
              THEN t.pc = "done" /\ t.http = 200 /\ t.result = cached_response
              ELSE t.pc = "chat_completion"

\* The answer of the backend: one call was made, the reply is in the cache
\* under the key of the conversation, and the user message and the reply
\* are the two newest rows of the log.
C37_ReplyStep ==
    \A i \in TaskIds :
        (tasks[i].pc = "chat_completion" /\ tasks'[i].pc = "done" /\ tasks'[i].http = 200)
        => LET t == tasks'[i]
               key == get_conversation_key(t.messages) IN
           /\ t.calls = 1
           /\ Len(t.result) = 1
           /\ key \in DOMAIN cache_entries'
           /\ cache_entries'[key].text = t.result[1]
           /\ Len(chat_messages') = Len(chat_messages) + 2
           /\ SubSeq(chat_messages', 1, Len(chat_messages)) = chat_messages
           /\ chat_messages'[Len(chat_messages) + 1] =
                 [session_id |-> t.session_id, role |-> "user", content |-> t.content]
           /\ chat_messages'[Len(chat_messages) + 2] =
                 [session_id |-> t.session_id, role |-> "assistant", content |-> t.result]

\* A finished request made at most one backend call, and none when it was
\* answered from the cache.
C37_Calls ==
    \A i \in SendTasks :
        /\ tasks[i].calls \in {0, 1}
        /\ tasks[i].status = "cache_hit" => tasks[i].calls = 0
        /\ tasks[i].status = "success" => tasks[i].calls = 1

\* C37: with caching enabled, a cache hit returns the cached text without
\* calling the LLM backend and without appending to the session's message
\* log; on a miss the backend is called once, the reply is written to the
\* cache, and the user message and the reply are appended to the log.
C37_CacheAside == []C37_Calls /\ [][C37_LookupStep]_vars /\ [][C37_ReplyStep]_vars

\* "Hi" was answered by the backend and stored; " hi " was then answered
\* from the cache with the same text, and the log still has two rows.
C37_Witness ==
    /\ Len(chat_messages) = 2
    /\ \E i, j \in SendTasks :
          /\ i < j
          /\ tasks[i].status = "success" /\ tasks[i].calls = 1
          /\ tasks[i].content = <<"H", "i">>
          /\ tasks[j].status = "cache_hit" /\ tasks[j].calls = 0
          /\ tasks[j].content = <<" ", "h", "i", " ">>
          /\ tasks[j].result = tasks[i].result

PayTasks == {i \in TaskIds : tasks[i].kind = "upi_pay"}

\* The records a request has inserted.
RecordsOf(i) ==
    {t \in DOMAIN payment_transactions :
        payment_transactions[t].order_id = GatewayOrderId(i)}

\* A request answered with success has exactly one record, with its own
\* tracking id, order id and payment-link id; a request whose gateway call
\* failed is answered with success = False and has none.
C38_Records ==
    \A i \in PayTasks :
        /\ ~tasks[i].gateway_ok =>
              tasks[i].pc = "done" /\ tasks[i].http = 400 /\ RecordsOf(i) = {}
        /\ tasks[i].http = 200 =>
              /\ tasks[i].gateway_ok
              /\ RecordsOf(i) = {tasks[i].tracking_id}
              /\ payment_transactions[tasks[i].tracking_id].payment_link_id
                    = GatewayLinkId(i)
        /\ tasks[i].pc # "done" => RecordsOf(i) = {}

\* The table changes only by the insert of one new row, and a request whose
\* gateway call failed leaves it as it is.
C38_InsertStep ==
    /\ payment_transactions' # payment_transactions =>
          \E t \in DOMAIN payment_transactions' \ DOMAIN payment_transactions :
              /\ DOMAIN payment_transactions' = DOMAIN payment_transactions \cup {t}
              /\ \A x \in DOMAIN payment_transactions :
                    payment_transactions'[x] = payment_transactions[x]
    /\ (Len(tasks') > Len(tasks) /\ ~tasks'[Len(tasks')].gateway_ok)
          => payment_transactions' = payment_transactions

\* C38: create_payment_request inserts exactly one PaymentTransaction (new
\* tracking id, the gateway's order id and payment-link id) only after both
\* the order and the payment link were created; when either gateway call
\* fails it answers success = False and leaves the table unchanged.
C38_RequestRecord == []C38_Records /\ [][C38_InsertStep]_vars

\* One request stored its record; a later one, whose payment link could not
\* be created, was refused and stored none.
C38_Witness ==
    \E i, j \in PayTasks :
        /\ i < j
        /\ tasks[i].http = 200 /\ RecordsOf(i) = {tasks[i].tracking_id}
        /\ tasks[j].status = "link_failed" /\ tasks[j].http = 400
        /\ DOMAIN payment_transactions = {tasks[i].tracking_id}

\* The order an event is about.
EventOrder(i) ==
    LET data == WebhookJson(tasks[i].body) IN
    IF data.event = "order.paid" THEN data.id ELSE data.order_id

\* The events whose handler records the event id, for an order that has a
\* PaymentTransaction.
Recording(i) ==
    /\ WebhookJson(tasks[i].body).event \in {"payment.captured", "payment.failed"}
    /\ \E t \in DOMAIN payment_transactions :
          payment_transactions[t].order_id = EventOrder(i)

NotesChanged ==
    \E t \in DOMAIN payment_transactions :
        t \in DOMAIN payment_transactions'
        /\ payment_transactions'[t].notes # payment_transactions[t].notes

\* A notes field changes only in a step of a payment.captured or
\* payment.failed task for an order with a record, and that step records
\* the task's event id.
C34_RecordStep ==
    NotesChanged =>
        \E i \in TaskIds :
            /\ tasks'[i] # tasks[i]
            /\ Recording(i)
            /\ (check_duplicate_event(tasks[i].event_id))'

\* A step of any other webhook task changes no notes field, and an event id
\* that was not a duplicate before the step is not one after it.
C34_FrameStep ==
    \A i \in TaskIds :
        (tasks[i].kind = "webhook" /\ tasks'[i] # tasks[i] /\ ~Recording(i))
        => /\ ~NotesChanged
           /\ \A e \in EventIds :
                 ~check_duplicate_event(e) => ~(check_duplicate_event(e))'

\* C34: the event id of a webhook is recorded only by the payment.captured
\* and payment.failed handlers and only when a PaymentTransaction with the
\* event's order id exists; every other event, and every event for an order
\* without one, leaves all notes unchanged, so its event id is still not a
\* duplicate afterwards.
C34_RecordedOnlyByCapturedFailed == [][C34_RecordStep]_vars /\ [][C34_FrameStep]_vars

\* A payment.authorized event changed the status of the payment request's
\* record and the capture of a top-up was credited; both tasks are done and
\* neither event id is a duplicate.
C34_Witness ==
    \E i, j \in TaskIds :
        /\ tasks[i].body = "authorized_p3" /\ tasks[i].pc = "done"
        /\ \E t \in DOMAIN payment_transactions :
              payment_transactions[t].status = "authorized"
        /\ tasks[j].body = "captured_p1" /\ tasks[j].pc = "done" /\ RowsBy(j) # {}
        /\ tasks[i].event_id # tasks[j].event_id
        /\ ~check_duplicate_event(tasks[i].event_id)
        /\ ~check_duplicate_event(tasks[j].event_id)

WebhookTasks == {i \in TaskIds : tasks[i].kind = "webhook"}

\* A task whose order fetch or credit failed has applied no credit, and
\* neither has a delivery that was skipped as a duplicate.
C35_NoCredit ==
    \A i \in WebhookTasks :
        (tasks[i].raised \/ tasks[i].status = "duplicate_event_skipped")
        => RowsBy(i) = {}

\* After the failure process_webhook runs: when the order has a
\* PaymentTransaction, it becomes completed and the event id is recorded.
C35_StillProcessed ==
    \A i \in 1..MaxReqs :
        (/\ i \in WebhookTasks
         /\ tasks[i].raised
         /\ tasks[i].pc = "process_webhook"
         /\ RecordsOfOrder(tasks[i].order_id) # {})
        ~> (/\ i \in WebhookTasks
            /\ tasks[i].pc = "done"
            /\ \A t \in RecordsOfOrder(tasks[i].order_id) :
                  payment_transactions[t].status = "completed"
            /\ check_duplicate_event(tasks[i].event_id))

\* A delivery of a recorded event id is skipped.
C35_RedeliveryStep ==
    Len(tasks') > Len(tasks) =>
        LET t == tasks'[Len(tasks')] IN
        (t.kind = "webhook" /\ check_duplicate_event(t.event_id))
        => t.status = "duplicate_event_skipped" /\ t.pc = "done"

\* C35: when the order fetch or the credit of a payment.captured event
\* fails, no credit is applied, yet process_webhook still runs and, if the
\* order has a PaymentTransaction, completes it and records the event id; a
\* redelivery of that event id is then skipped as a duplicate, so the
\* webhook path never credits the payment.
C35_CreditIndependent ==
    []C35_NoCredit /\ C35_StillProcessed /\ [][C35_RedeliveryStep]_vars

\* The order fetch of the capture of p3 failed; its record is completed and
\* holds the event id; the redelivery was skipped; nothing was credited for
\* p3.
C35_Witness ==
    \E i, j \in WebhookTasks :
        /\ i < j
        /\ tasks[i].body = "captured_p3" /\ tasks[i].raised /\ tasks[i].pc = "done"
        /\ \E t \in RecordsOfOrder("o3") : payment_transactions[t].status = "completed"
        /\ tasks[j].body = "captured_p3" /\ tasks[j].event_id = tasks[i].event_id
        /\ tasks[j].status = "duplicate_event_skipped"
        /\ \A r \in Rows : r.reference_id # "p3"

\* A correctly signed delivery with no event id, or whose duplicate query
\* raised, is accepted and its task scheduled.
C36_AcceptStep ==
    Len(tasks') > Len(tasks) =>
        LET t == tasks'[Len(tasks')] IN
        (/\ t.kind = "webhook"
         /\ WebhookJson(t.body).parses
         /\ t.signature = Hmac(t.body)
         /\ (t.event_id = <<>> \/ t.check_failed))
        => t.status = "webhook_accepted" /\ t.pc = "process_wallet_webhook"

\* Such a delivery is processed as a new event is: a top-up capture is
\* credited once by its task.
C36_Processed ==
    \A i \in WebhookTasks :
        (/\ tasks[i].event_id = <<>> \/ tasks[i].check_failed
         /\ tasks[i].pc = "done"
         /\ WebhookJson(tasks[i].body).event = "payment.captured"
         /\ OrderNotes(WebhookJson(tasks[i].body).order_id).payment_type = "balance_topup")
        => Cardinality(RowsBy(i)) = 1

\* C36: check_duplicate_event answers "not a duplicate" whenever the event
\* id header is empty or the store query raises, so such a delivery is
\* accepted and processed like a new event.
C36_FailsOpen == []C36_Processed /\ [][C36_AcceptStep]_vars

\* A capture without event id was processed and the empty id recorded; the
\* same capture, again without event id, was accepted again.
C36_Witness ==
    \E i, j \in WebhookTasks :
        /\ i < j
        /\ tasks[i].body = "captured_p3" /\ tasks[i].event_id = <<>>
        /\ tasks[i].pc = "done"
        /\ DuplicateLookup(<<>>)
        /\ tasks[j].body = "captured_p3" /\ tasks[j].event_id = <<>>
        /\ i \in tasks[j].priorDone
        /\ tasks[j].status = "webhook_accepted"

====
